---- MODULE Spec2Model ----
(***************************************************************************)
(* Order / invoice numbering and line-item computation of src/app.py.      *)
(*                                                                         *)
(* Text values (form fields, document numbers) are sequences of one-       *)
(* character strings, so that strip(), replace(), float(), LIKE and the    *)
(* number format are computed character by character.                     *)
(*                                                                         *)
(* Numbers: a parsed form value is an integer count of TENTHS (1.5 is 15).  *)
(* Every money amount (net, tax, line_total, total, tax_total,             *)
(* grand_total) is an integer count of 1/100000 units, the common          *)
(* denominator of qty*rate*(1 - disc/100) and of net*gst/100 for inputs    *)
(* given in tenths; 270.0 is 27000000.  The arithmetic is therefore exact. *)
(***************************************************************************)
EXTENDS Integers, Sequences, FiniteSets, TLC

VARIABLES
    sales_orders,          \* table sales_orders: set of rows [id, so_no, total, grand_total]
    sales_order_items,     \* table sales_order_items: sequence of rows, insertion order
    purchase_orders,       \* table purchase_orders: set of rows [id, po_no, total, tax_total, grand_total]
    purchase_order_items,  \* table purchase_order_items
    sales_invoices,        \* table sales_invoices: set of rows [id, invoice_no, total, grand_total]
    sales_invoice_items,   \* table sales_invoice_items
    sqlite_sequence,       \* AUTOINCREMENT high-water mark per header table
    today,                 \* index of the current date in Dates (datetime.now())
    resp,                  \* outcome of the last request handled
    hist,                  \* history: per document type, what happened since the day began
    call,                  \* last direct call of a pure helper (name and arguments)
    ret,                   \* what that call returned or raised
    conn,                  \* per concurrent request: its connection (pc, snapshot, ids)
    wlock,                 \* holder of the database write lock, 0 when free
    session,               \* keys of the browser's signed session cookie
    customers,             \* table customers: set of rows [id, name]
    suppliers,             \* table suppliers: set of rows [id, name]
    items,                 \* table items: set of rows [id, sku, name]
    stock_moves            \* table stock_moves: set of rows [id, item_id, move_type, qty, reference]

vars == << sales_orders, sales_order_items, purchase_orders, purchase_order_items,
           sales_invoices, sales_invoice_items, sqlite_sequence, today, resp, hist,
           call, ret, conn, wlock, session, customers, suppliers, items, stock_moves >>

\* The session and the master tables
masters == << session, customers, suppliers, items, stock_moves >>

dbvars == << sales_orders, sales_order_items, purchase_orders, purchase_order_items,
             sales_invoices, sales_invoice_items, sqlite_sequence >>

(***************************************************************************)
(* Bounds                                                                  *)
(***************************************************************************)
MaxDocs == 2      \* documents ever committed, all types together
MaxLines == 1     \* lines of a submitted form (the end-to-end scenario form apart)
MaxDay == 2       \* dates the clock runs through

(***************************************************************************)
(* Text helpers                                                            *)
(***************************************************************************)
None == << "None" >>     \* Python None, distinct from every text

Max(a, b) == IF a >= b THEN a ELSE b

DigitVal(c) ==
    CASE c = "0" -> 0 [] c = "1" -> 1 [] c = "2" -> 2 [] c = "3" -> 3 [] c = "4" -> 4
      [] c = "5" -> 5 [] c = "6" -> 6 [] c = "7" -> 7 [] c = "8" -> 8 [] c = "9" -> 9

DigitChar(d) ==
    CASE d = 0 -> "0" [] d = 1 -> "1" [] d = 2 -> "2" [] d = 3 -> "3" [] d = 4 -> "4"
      [] d = 5 -> "5" [] d = 6 -> "6" [] d = 7 -> "7" [] d = 8 -> "8" [] d = 9 -> "9"

IsDigit(c) == c \in {"0", "1", "2", "3", "4", "5", "6", "7", "8", "9"}

RECURSIVE lstrip(_)
lstrip(s) == IF s # << >> /\ Head(s) = " " THEN lstrip(Tail(s)) ELSE s

RECURSIVE rstrip(_)
rstrip(s) == IF s # << >> /\ s[Len(s)] = " " THEN rstrip(SubSeq(s, 1, Len(s) - 1)) ELSE s

\* str.strip()
strip(s) == rstrip(lstrip(s))

\* str.replace(',', '.')
replace_comma(s) == [i \in 1..Len(s) |-> IF s[i] = "," THEN "." ELSE s[i]]

RECURSIVE DigitsVal(_)
DigitsVal(s) == IF s = << >> THEN 0 ELSE DigitsVal(SubSeq(s, 1, Len(s) - 1)) * 10 + DigitVal(s[Len(s)])

\* Python float(text) on decimal literals without exponent: surrounding
\* blanks are dropped, one optional sign, digits with at most one '.', at
\* least one digit.  ok = FALSE is ValueError.  v is the value in tenths
\* (the inputs carry at most one fractional digit).
float(s) ==
    LET magnitude(whole, frac) ==
            DigitsVal(whole) * 10 + (IF frac = << >> THEN 0 ELSE DigitVal(frac[1]))
        split(body, dot) ==
            magnitude(SubSeq(body, 1, dot - 1), SubSeq(body, dot + 1, Len(body)))
        literal(body, dots, digs) ==
            IF /\ Cardinality(dots) <= 1
               /\ Cardinality(digs) >= 1
               /\ Cardinality(dots) + Cardinality(digs) = Len(body)
            THEN [ok |-> TRUE,
                  v |-> split(body, IF dots = {} THEN Len(body) + 1 ELSE CHOOSE i \in dots : TRUE)]
            ELSE [ok |-> FALSE, v |-> 0]
        unsigned(body) ==
            literal(body, {i \in 1..Len(body) : body[i] = "."},
                          {i \in 1..Len(body) : IsDigit(body[i])})
        negated(f) == [ok |-> f.ok, v |-> 0 - f.v]
        parse(t) ==
            IF t # << >> /\ Head(t) = "-" THEN negated(unsigned(Tail(t)))
            ELSE IF t # << >> /\ Head(t) = "+" THEN unsigned(Tail(t))
            ELSE unsigned(t)
    IN  parse(strip(s))

safe_float(val) ==
    LET value_or_0(f) == IF f.ok THEN f.v ELSE 0
    IN  IF val = None \/ strip(val) = << >> THEN 0
        ELSE value_or_0(float(replace_comma(val)))

(***************************************************************************)
(* Line-item calculators                                                   *)
(***************************************************************************)
\* A variant of the sales-style calculator without the clamp at 0.
calculate_line_sales_noclamp(qty, rate, disc) ==
    LET line(q, r, d) == [qty |-> q, rate |-> r, disc |-> d, line_total |-> (q * r) * (1000 - d)]
    IN  line(safe_float(qty), safe_float(rate), safe_float(disc))

\* def calculate_line(qty, rate, disc) of the sales-order section.
calculate_line_sales(qty, rate, disc) ==
    LET line(q, r, d) ==
            [qty |-> q, rate |-> r, disc |-> d,
             line_total |-> Max((q * r) * (1000 - d), 0)]   \* base * (1 - disc/100)
    IN  line(safe_float(qty), safe_float(rate), safe_float(disc))

\* A variant of the purchase-style calculator that taxes the undiscounted base.
calculate_line_taxbase(qty, rate, disc, gst) ==
    LET line(q, r, d, t, net, tax) ==
            [qty |-> q, rate |-> r, disc |-> d, gst |-> t,
             net |-> net * 1000, tax |-> tax, line_total |-> net * 1000 + tax]
        taxed(q, r, d, t, net) == line(q, r, d, t, net, (q * r) * t)
        netted(q, r, d, t) == taxed(q, r, d, t, Max(q * r - d * 10, 0))
    IN  netted(safe_float(qty), safe_float(rate), safe_float(disc), safe_float(gst))

\* def calculate_line(qty, rate, disc, gst) of the purchase-order section:
\* the definition the module-level name calculate_line is bound to once the
\* module has been imported.
calculate_line(qty, rate, disc, gst) ==
    LET line(q, r, d, t, net, tax) ==
            [qty |-> q, rate |-> r, disc |-> d, gst |-> t,
             net |-> net * 1000, tax |-> tax, line_total |-> net * 1000 + tax]
        taxed(q, r, d, t, net) == line(q, r, d, t, net, net * t)     \* net * (gst/100), in 1/100000
        netted(q, r, d, t) == taxed(q, r, d, t, Max(q * r - d * 10, 0))  \* base - disc, hundredths
    IN  netted(safe_float(qty), safe_float(rate), safe_float(disc), safe_float(gst))

\* Number of positional parameters of the function bound to the name
\* calculate_line when a request is handled (the later def wins).
calculate_line_params == 4

\* float(x or 0) of save_invoice: '' is falsy and gives 0.0; anything else
\* goes to float() unchanged (no comma replacement, no exception handler).
float_or_0(x) == IF x = << >> THEN [ok |-> TRUE, v |-> 0] ELSE float(x)

\* The per-line computation inlined in save_invoice.  raised = TRUE is an
\* uncaught ValueError.
save_invoice_line(item_id, qty, rate, disc) ==
    LET line(q, r, d) ==
            [raised |-> ~(q.ok /\ r.ok /\ d.ok),
             item_id |-> item_id, qty |-> q.v, rate |-> r.v, disc |-> d.v,
             line_total |-> Max((q.v * r.v) * (1000 - d.v), 0)]
    IN  line(float_or_0(qty), float_or_0(rate), float_or_0(disc))

(***************************************************************************)
(* Document numbers                                                        *)
(***************************************************************************)
RECURSIVE Decimal(_)
Decimal(n) == IF n < 10 THEN << DigitChar(n) >> ELSE Decimal(n \div 10) \o << DigitChar(n % 10) >>

RECURSIVE ZeroPad(_, _)
ZeroPad(s, width) == IF Len(s) >= width THEN s ELSE ZeroPad(<< "0" >> \o s, width)

\* datetime.now().strftime("%Y%m%d") on the d-th day of the run
strftime(d) == Decimal(20261104 + d)

SO == << "S", "O" >>
PO == << "P", "O" >>
INV == << "I", "N", "V" >>

\* A variant of the number format whose sequence is the count itself.
DocNoFromCount(prefix, d, seq) == prefix \o strftime(d) \o << "-" >> \o ZeroPad(Decimal(seq - 1), 5)

\* f"SO{today_str}-{next_seq:05d}" and f"PO{today_str}-{count_today + 1:05d}"
DocNo(prefix, d, seq) == prefix \o strftime(d) \o << "-" >> \o ZeroPad(Decimal(seq), 5)

\* SQLite LIKE folds the case of ASCII letters.
upper(c) == CASE c = "s" -> "S" [] c = "o" -> "O" [] c = "p" -> "P" [] OTHER -> c

\* A variant of the count pattern without the '-' before the wildcard.
LikeTodayNoDash(no, prefix, d) ==
    LET matches(pat) ==
            /\ no # None
            /\ Len(no) >= Len(pat)
            /\ \A i \in 1..Len(pat) : upper(no[i]) = upper(pat[i])
    IN  matches(prefix \o strftime(d))

\* no LIKE 'SO<today>-%' (resp. 'PO<today>-%'); NULL never matches.
LikeToday(no, prefix, d) ==
    LET matches(pat) ==
            /\ no # None
            /\ Len(no) >= Len(pat)
            /\ \A i \in 1..Len(pat) : upper(no[i]) = upper(pat[i])
    IN  matches(prefix \o strftime(d) \o << "-" >>)

(***************************************************************************)
(* Tables                                                                  *)
(***************************************************************************)
\* session after a login (session['user_id'], session['user_name']) and
\* after session.clear()
SignedIn == {"user_id", "user_name"}

SignedOut == {}

Ids == 1..MaxDocs
Tables == {"sales_orders", "purchase_orders", "sales_invoices",
           "customers", "suppliers", "items", "stock_moves"}

\* An item table is kept as the function from the header id its rows carry
\* (sales_order_id, purchase_order_id, sales_invoice_id) to those rows in
\* insertion order; a row's own id is never read by a handler.
NoRows == [i \in Ids |-> << >>]

RECURSIVE SumOf(_, _)
SumOf(rows, f) == IF rows = << >> THEN 0 ELSE rows[1][f] + SumOf(Tail(rows), f)

TotalDocs == sqlite_sequence["sales_orders"] + sqlite_sequence["purchase_orders"]
             + sqlite_sequence["sales_invoices"]

\* so_no TEXT UNIQUE / si_no TEXT UNIQUE: a value may not equal the value of
\* another row; NULLs never collide.
UniqueViolation(rows, f, id, val) == val # None /\ \E r \in rows : r.id # id /\ r[f] = val

\* Whether purchase_orders.po_no carries a UNIQUE constraint.
po_no_unique == FALSE

(***************************************************************************)
(* Requests                                                                *)
(***************************************************************************)
\* Lines a sales-order form may carry: request.form.getlist(...) at index i.
SOLineInputs ==
    { [item_id |-> << "1" >>, qty |-> << "3" >>, rate |-> << "1", "0", "0" >>, discount |-> << "1", "0" >>],
      [item_id |-> << "2" >>, qty |-> << "1" >>, rate |-> << "5", "0" >>, discount |-> << "0" >>],
      [item_id |-> << >>, qty |-> << >>, rate |-> << >>, discount |-> << >>] }

POLineInputs ==
    { [item_id |-> << "1" >>, qty |-> << "2" >>, rate |-> << "1", "0" >>, discount |-> << "5" >>,
       gst_rate |-> << "1", "0" >>],
      [item_id |-> << "2" >>, qty |-> << "1", ",", "5" >>, rate |-> << "1", "0" >>, discount |-> << >>,
       gst_rate |-> << "x" >>],
      [item_id |-> << "3" >>, qty |-> << "1" >>, rate |-> << "1", "0", "0" >>, discount |-> << "0" >>,
       gst_rate |-> << "-", "2", "0", "0" >>],
      [item_id |-> << >>, qty |-> << "1" >>, rate |-> << "1" >>, discount |-> << >>, gst_rate |-> << >>] }

SILineInputs ==
    { [item_id |-> << "1" >>, qty |-> << "2" >>, rate |-> << "1", "0" >>, discount |-> << "0" >>],
      [item_id |-> << "2" >>, qty |-> << "1", ",", "5" >>, rate |-> << "1", "0" >>, discount |-> << "0" >>],
      [item_id |-> << >>, qty |-> << "3" >>, rate |-> << "1", "0" >>, discount |-> << "0" >>] }

\* The two lines of the end-to-end scenario (qty 3, rate 100, discount 10;
\* qty 1, rate 50, discount 0).
ScenarioLines ==
    << [item_id |-> << "1" >>, qty |-> << "3" >>, rate |-> << "1", "0", "0" >>, discount |-> << "1", "0" >>],
       [item_id |-> << "2" >>, qty |-> << "1" >>, rate |-> << "5", "0" >>, discount |-> << "0" >>] >>

\* Values of the so_no / po_no / invoice_no form field: blank, absent
\* (form.get gives None), and typed-in numbers.
SONoInputs == { << >>, None, SO \o strftime(1), << "s", "o" >> \o strftime(1) \o << "-", "7" >>,
                DocNo(SO, 1, 2) }
PONoInputs == { << >>, PO \o strftime(1), DocNo(PO, 1, 1) }
SINoInputs == { << >>, << "A" >> }

Forms(nos, lines) ==
    UNION { [no : nos, lines : [1..n -> lines]] : n \in 0..MaxLines }

NoForm == [no |-> None, lines |-> << >>]

\* The outcome of a request: the handler, the id in the URL (0 when none),
\* the form it read, the exception that ended it ("" when it returned a
\* redirect after commit, "not_found" for the flash-and-redirect of a
\* missing header), the number it generated and the date it ran on.
Resp(op, id, form, exc, no) ==
    [op |-> op, id |-> id, form |-> form, exc |-> exc, no |-> no, day |-> today]

\* An uncaught exception: nothing was committed and close_db() closes the
\* connection, which rolls the open transaction back.
Raise(op, id, form, exc, no) ==
    /\ resp' = Resp(op, id, form, exc, no)
    /\ UNCHANGED << dbvars, hist >>

\* The state after init_db(), for a browser with the session keys s
InitSession(s) ==
    /\ sales_orders = {}
    /\ sales_order_items = NoRows
    /\ purchase_orders = {}
    /\ purchase_order_items = NoRows
    /\ sales_invoices = {}
    /\ sales_invoice_items = NoRows
    /\ sqlite_sequence = [t \in Tables |-> 0]
    /\ session = s
    /\ customers = {}
    /\ suppliers = {}
    /\ items = {}
    /\ stock_moves = {}
    /\ today = 1
    /\ resp = Resp("none", 0, NoForm, "", None)
    /\ hist = [t \in {"sales_orders", "purchase_orders"} |-> [pure |-> TRUE, nos |-> << >>]]
    /\ conn = << >>
    /\ wlock = 0

InitDb == InitSession(SignedIn)

NoCall == [fn |-> "none", args |-> << >>]
NoRet == [done |-> FALSE, raised |-> FALSE, value |-> 0]

Init ==
    /\ InitDb
    /\ call = NoCall
    /\ ret = NoRet

\* hist after a committed creation that was given a generated number
Created(t, no) ==
    [hist EXCEPT ![t].nos = IF hist[t].pure THEN Append(@, no) ELSE @]

\* hist after a committed edit, delete or creation under a typed-in number
Disturbed(t) == [hist EXCEPT ![t] = [pure |-> FALSE, nos |-> << >>]]

(***************************************************************************)
(* Sales orders                                                            *)
(***************************************************************************)
\* The rows the line loop of salesorder_new / salesorder_edit inserts.
so_rows(lines) ==
    LET row(l, c) ==
            [item_id |-> l.item_id, qty |-> c.qty, rate |-> c.rate,
             discount |-> c.disc, line_total |-> c.line_total]
    IN  [i \in 1..Len(lines) |->
            row(lines[i], calculate_line_sales(lines[i].qty, lines[i].rate, lines[i].discount))]

\* A variant of the count query that also counts the placeholder row.
so_count_today_all(rows) == Cardinality(rows)

\* SELECT COUNT(*) FROM sales_orders WHERE so_no LIKE 'SO<today>-%'
so_count_today(rows) == Cardinality({r \in rows : LikeToday(r.so_no, SO, today)})

salesorder_new(form) ==
    /\ TotalDocs < MaxDocs
    /\ LET op == "salesorder_new"
           \* totals, final UPDATE and commit
           save(so_id, so_no, rows, total) ==
               /\ sales_orders' = sales_orders \cup
                      {[id |-> so_id, so_no |-> so_no, total |-> total, grand_total |-> total]}
               /\ sales_order_items' = [sales_order_items EXCEPT ![so_id] = @ \o rows]
               /\ sqlite_sequence' = [sqlite_sequence EXCEPT !["sales_orders"] = so_id]
               /\ resp' = Resp(op, 0, form, "", so_no)
               /\ hist' = Created("sales_orders", so_no)
               /\ UNCHANGED << purchase_orders, purchase_order_items,
                               sales_invoices, sales_invoice_items >>
           summed(so_id, so_no, rows) == save(so_id, so_no, rows, SumOf(rows, "line_total"))
           \* UPDATE of the number, then the line loop
           numbered(so_id, inserted, so_no, lines) ==
               IF UniqueViolation(inserted, "so_no", so_id, so_no)
               THEN Raise(op, 0, form, "IntegrityError", so_no)
               ELSE IF lines # << >> /\ calculate_line_params # 3
               THEN Raise(op, 0, form, "TypeError", so_no)
               ELSE summed(so_id, so_no, so_rows(lines))
           \* the count query and the number built from it
           counted(so_id, inserted) ==
               numbered(so_id, inserted, DocNo(SO, today, so_count_today(inserted) + 1),
                        SelectSeq(form.lines, LAMBDA l : l.item_id # << >>))
           \* INSERT of the placeholder header
           placeholder(so_id) ==
               IF UniqueViolation(sales_orders, "so_no", so_id, << >>)
               THEN Raise(op, 0, form, "IntegrityError", None)
               ELSE counted(so_id, sales_orders \cup
                       {[id |-> so_id, so_no |-> << >>, total |-> 0, grand_total |-> 0]})
       IN  placeholder(sqlite_sequence["sales_orders"] + 1)
    /\ UNCHANGED << today, call, masters, ret, conn, wlock >>

salesorder_edit(so_id, form) ==
    /\ LET op == "salesorder_edit"
           save(rows, total) ==
               /\ sales_orders' = {r \in sales_orders : r.id # so_id} \cup
                      {[id |-> so_id, so_no |-> form.no, total |-> total, grand_total |-> total]}
               /\ sales_order_items' = [sales_order_items EXCEPT ![so_id] = rows]
               /\ resp' = Resp(op, so_id, form, "", None)
               /\ hist' = Disturbed("sales_orders")
               /\ UNCHANGED << purchase_orders, purchase_order_items, sales_invoices,
                               sales_invoice_items, sqlite_sequence >>
           summed(rows) == save(rows, SumOf(rows, "line_total"))
           replace(lines) ==
               IF lines # << >> /\ calculate_line_params # 3
               THEN Raise(op, so_id, form, "TypeError", None)
               ELSE IF UniqueViolation(sales_orders, "so_no", so_id, form.no)
               THEN Raise(op, so_id, form, "IntegrityError", None)
               ELSE summed(so_rows(lines))
       IN  IF ~ \E r \in sales_orders : r.id = so_id
           THEN Raise(op, so_id, NoForm, "not_found", None)
           ELSE replace(SelectSeq(form.lines, LAMBDA l : l.item_id # << >>))
    /\ UNCHANGED << today, call, masters, ret, conn, wlock >>

salesorder_delete(id) ==
    /\ sales_orders' = {r \in sales_orders : r.id # id}
    /\ sales_order_items' = [sales_order_items EXCEPT ![id] = << >>]
    /\ resp' = Resp("salesorder_delete", id, NoForm, "", None)
    /\ hist' = Disturbed("sales_orders")
    /\ UNCHANGED << purchase_orders, purchase_order_items, sales_invoices,
                    sales_invoice_items, sqlite_sequence >>
    /\ UNCHANGED << today, call, masters, ret, conn, wlock >>

(***************************************************************************)
(* Purchase orders                                                         *)
(***************************************************************************)
\* The rows the line loop of po_new / po_edit inserts.
po_rows(lines) ==
    LET row(l, c) ==
            [item_id |-> l.item_id, qty |-> c.qty, rate |-> c.rate, discount |-> c.disc,
             gst_rate |-> c.gst, net |-> c.net, tax |-> c.tax, line_total |-> c.line_total]
    IN  [i \in 1..Len(lines) |->
            row(lines[i], calculate_line(lines[i].qty, lines[i].rate, lines[i].discount,
                                         lines[i].gst_rate))]

\* SELECT COUNT(*) FROM purchase_orders WHERE po_no LIKE 'PO<today>-%'
po_count_today(rows) == Cardinality({r \in rows : LikeToday(r.po_no, PO, today)})

po_new(form) ==
    /\ TotalDocs < MaxDocs
    /\ LET op == "po_new"
           generated == form.no \in {<< >>, None}           \* if not po_no
           \* the line loop, totals, final UPDATE and commit
           save(po_id, po_no, rows) ==
               /\ purchase_orders' = purchase_orders \cup
                      {[id |-> po_id, po_no |-> po_no, total |-> SumOf(rows, "net"),
                        tax_total |-> SumOf(rows, "tax"),
                        grand_total |-> SumOf(rows, "line_total")]}
               /\ purchase_order_items' = [purchase_order_items EXCEPT ![po_id] = @ \o rows]
               /\ sqlite_sequence' = [sqlite_sequence EXCEPT !["purchase_orders"] = po_id]
               /\ resp' = Resp(op, 0, form, "", po_no)
               /\ hist' = IF generated THEN Created("purchase_orders", po_no)
                          ELSE Disturbed("purchase_orders")
               /\ UNCHANGED << sales_orders, sales_order_items,
                               sales_invoices, sales_invoice_items >>
           \* UPDATE of the number
           numbered(po_id, inserted, po_no) ==
               IF po_no_unique /\ UniqueViolation(inserted, "po_no", po_id, po_no)
               THEN Raise(op, 0, form, "IntegrityError", po_no)
               ELSE save(po_id, po_no,
                         po_rows(SelectSeq(form.lines, LAMBDA l : l.item_id # << >>)))
           \* the number typed in, or the count query and the number built from it
           counted(po_id, inserted) ==
               numbered(po_id, inserted,
                        IF generated THEN DocNo(PO, today, po_count_today(inserted) + 1)
                        ELSE form.no)
           \* INSERT of the placeholder header
           placeholder(po_id) ==
               IF po_no_unique /\ UniqueViolation(purchase_orders, "po_no", po_id, << >>)
               THEN Raise(op, 0, form, "IntegrityError", None)
               ELSE counted(po_id, purchase_orders \cup
                       {[id |-> po_id, po_no |-> << >>, total |-> 0, tax_total |-> 0,
                         grand_total |-> 0]})
       IN  placeholder(sqlite_sequence["purchase_orders"] + 1)
    /\ UNCHANGED << today, call, masters, ret, conn, wlock >>

po_edit(po_id, form) ==
    /\ LET op == "po_edit"
           save(rows) ==
               /\ purchase_orders' = {r \in purchase_orders : r.id # po_id} \cup
                      {[id |-> po_id, po_no |-> form.no, total |-> SumOf(rows, "net"),
                        tax_total |-> SumOf(rows, "tax"),
                        grand_total |-> SumOf(rows, "line_total")]}
               /\ purchase_order_items' = [purchase_order_items EXCEPT ![po_id] = rows]
               /\ resp' = Resp(op, po_id, form, "", None)
               /\ hist' = Disturbed("purchase_orders")
               /\ UNCHANGED << sales_orders, sales_order_items, sales_invoices,
                               sales_invoice_items, sqlite_sequence >>
       IN  IF ~ \E r \in purchase_orders : r.id = po_id
           THEN Raise(op, po_id, NoForm, "not_found", None)
           ELSE IF po_no_unique /\ UniqueViolation(purchase_orders, "po_no", po_id, form.no)
           THEN Raise(op, po_id, form, "IntegrityError", None)
           ELSE save(po_rows(SelectSeq(form.lines, LAMBDA l : l.item_id # << >>)))
    /\ UNCHANGED << today, call, masters, ret, conn, wlock >>

\* A variant of the delete that removes the header row only.
po_delete_header_only(id) ==
    /\ purchase_orders' = {r \in purchase_orders : r.id # id}
    /\ resp' = Resp("po_delete", id, NoForm, "", None)
    /\ hist' = Disturbed("purchase_orders")
    /\ UNCHANGED << sales_orders, sales_order_items, purchase_order_items, sales_invoices,
                    sales_invoice_items, sqlite_sequence >>
    /\ UNCHANGED << today, call, masters, ret, conn, wlock >>

po_delete(id) ==
    /\ purchase_orders' = {r \in purchase_orders : r.id # id}
    /\ purchase_order_items' = [purchase_order_items EXCEPT ![id] = << >>]
    /\ resp' = Resp("po_delete", id, NoForm, "", None)
    /\ hist' = Disturbed("purchase_orders")
    /\ UNCHANGED << sales_orders, sales_order_items, sales_invoices,
                    sales_invoice_items, sqlite_sequence >>
    /\ UNCHANGED << today, call, masters, ret, conn, wlock >>

(***************************************************************************)
(* Sales invoices                                                          *)
(***************************************************************************)
\* int(datetime.now().timestamp()) can take two values on each day of the run.
Timestamps(d) == {2 * d - 1, 2 * d}

\* save_invoice(db, form, id): id = 0 stands for id=None (salesinvoice_new),
\* any other id comes from the URL of salesinvoice_edit, which does not
\* check that the invoice exists before a POST is saved.
save_invoice(op, form, id, ts) ==
    LET \* INSERT or UPDATE of the header, DELETE and INSERT of the lines, commit
        write(invoice_no, invoice_id, exists, rows, total) ==
            IF (id = 0 \/ exists)
               /\ UniqueViolation(sales_invoices, "invoice_no", invoice_id, invoice_no)
            THEN Raise(op, id, form, "IntegrityError", invoice_no)
            ELSE /\ sales_invoices' =
                        IF id = 0 \/ exists
                        THEN {r \in sales_invoices : r.id # invoice_id} \cup
                                {[id |-> invoice_id, invoice_no |-> invoice_no,
                                  total |-> total, grand_total |-> total]}
                        ELSE sales_invoices                  \* UPDATE matches no row
                 /\ sales_invoice_items' =
                        [sales_invoice_items EXCEPT
                            ![invoice_id] = IF id = 0 THEN @ \o rows ELSE rows]
                 /\ sqlite_sequence' =
                        IF id = 0
                        THEN [sqlite_sequence EXCEPT !["sales_invoices"] = invoice_id]
                        ELSE sqlite_sequence
                 /\ resp' = Resp(op, id, form, "", invoice_no)
                 /\ UNCHANGED << sales_orders, sales_order_items, purchase_orders,
                                 purchase_order_items, hist >>
        located(invoice_no, invoice_id, rows) ==
            write(invoice_no, invoice_id, \E r \in sales_invoices : r.id = invoice_id,
                  rows, SumOf(rows, "line_total"))
        \* the line loop runs before anything is written
        looped(invoice_no, computed) ==
            IF \E i \in 1..Len(computed) : computed[i].raised
            THEN Raise(op, id, form, "ValueError", None)
            ELSE located(invoice_no,
                         IF id = 0 THEN sqlite_sequence["sales_invoices"] + 1 ELSE id,
                         [i \in 1..Len(computed) |->
                             [item_id |-> computed[i].item_id, qty |-> computed[i].qty,
                              rate |-> computed[i].rate, discount |-> computed[i].disc,
                              line_total |-> computed[i].line_total]])
    IN  looped(IF form.no \in {<< >>, None} THEN INV \o Decimal(ts) ELSE form.no,
               [i \in 1..Len(form.lines) |->
                   save_invoice_line(form.lines[i].item_id, form.lines[i].qty,
                                     form.lines[i].rate, form.lines[i].discount)])

salesinvoice_new(form, ts) ==
    /\ TotalDocs < MaxDocs
    /\ save_invoice("salesinvoice_new", form, 0, ts)
    /\ UNCHANGED << today, call, masters, ret, conn, wlock >>

salesinvoice_edit(id, form, ts) ==
    /\ save_invoice("salesinvoice_edit", form, id, ts)
    /\ UNCHANGED << today, call, masters, ret, conn, wlock >>

salesinvoice_delete(id) ==
    /\ sales_invoices' = {r \in sales_invoices : r.id # id}
    /\ sales_invoice_items' = [sales_invoice_items EXCEPT ![id] = << >>]
    /\ resp' = Resp("salesinvoice_delete", id, NoForm, "", None)
    /\ UNCHANGED << sales_orders, sales_order_items, purchase_orders,
                    purchase_order_items, sqlite_sequence, hist >>
    /\ UNCHANGED << today, call, masters, ret, conn, wlock >>

(***************************************************************************)
(* The clock, and the sequential specification                             *)
(***************************************************************************)
\* Midnight passes: datetime.now() moves to the next date.
Tick ==
    /\ today < MaxDay
    /\ today' = today + 1
    /\ hist' = [t \in {"sales_orders", "purchase_orders"} |->
                  [pure |-> IF t = "sales_orders"
                            THEN ~ \E r \in sales_orders : LikeToday(r.so_no, SO, today + 1)
                            ELSE ~ \E r \in purchase_orders : LikeToday(r.po_no, PO, today + 1),
                   nos |-> << >>]]
    /\ UNCHANGED << dbvars, resp, call, masters, ret, conn, wlock >>

\* Forms that carry header fields only (no line).
HeaderForms(nos) == [no : nos, lines : {<< >>}]

(***************************************************************************)
(* Spec: the numbering life cycle of sales and purchase orders (create,    *)
(* edit, delete, change of date), requests handled one after the other.    *)
(***************************************************************************)
Next ==
    \/ \E form \in HeaderForms({<< >>}) : salesorder_new(form)
    \/ \E id \in Ids, form \in HeaderForms(SONoInputs) : salesorder_edit(id, form)
    \/ \E id \in Ids : salesorder_delete(id)
    \/ \E form \in HeaderForms(PONoInputs) : po_new(form)
    \/ \E id \in Ids, form \in HeaderForms(PONoInputs) : po_edit(id, form)
    \/ \E id \in Ids : po_delete(id)
    \/ Tick

Spec == Init /\ [][Next]_vars

(***************************************************************************)
(* SpecSO, SpecPO, SpecSI: one document type each, forms with lines.       *)
(***************************************************************************)
NextSO ==
    \/ \E form \in Forms({<< >>}, SOLineInputs) \cup {[no |-> << >>, lines |-> ScenarioLines]} :
          salesorder_new(form)
    \/ \E id \in Ids, form \in Forms({DocNo(SO, 1, 1)}, SOLineInputs) : salesorder_edit(id, form)
    \/ \E id \in Ids : salesorder_delete(id)
    \/ Tick

SpecSO == Init /\ [][NextSO]_vars

NextPO ==
    \/ \E form \in Forms({<< >>}, POLineInputs) : po_new(form)
    \/ \E id \in Ids, form \in Forms({DocNo(PO, 1, 1)}, POLineInputs) : po_edit(id, form)
    \/ \E id \in Ids : po_delete(id)

SpecPO == Init /\ [][NextPO]_vars

NextSI ==
    \/ \E form \in Forms(SINoInputs, SILineInputs), ts \in Timestamps(today) :
          salesinvoice_new(form, ts)
    \/ \E id \in Ids, form \in Forms(SINoInputs, SILineInputs), ts \in Timestamps(today) :
          salesinvoice_edit(id, form, ts)
    \/ \E id \in Ids : salesinvoice_delete(id)

SpecSI == Init /\ [][NextSI]_vars

(***************************************************************************)
(* SpecDocs: the three document types side by side (create, edit, delete), *)
(* numbers left to the handlers.                                           *)
(***************************************************************************)
\* Forms with a generated number and no line or the one line for item 1.
OneLineForms(lines) ==
    [no : {<< >>}, lines : {<< >>} \cup {<< l >> : l \in {k \in lines : k.item_id = << "1" >>}}]

NextDocs ==
    \/ \E form \in OneLineForms(SOLineInputs) : salesorder_new(form)
    \/ \E id \in Ids, form \in OneLineForms(SOLineInputs) : salesorder_edit(id, form)
    \/ \E id \in Ids : salesorder_delete(id)
    \/ \E form \in OneLineForms(POLineInputs) : po_new(form)
    \/ \E id \in Ids, form \in OneLineForms(POLineInputs) : po_edit(id, form)
    \/ \E id \in Ids : po_delete(id)
    \/ \E form \in OneLineForms(SILineInputs) : salesinvoice_new(form, 2 * today)
    \/ \E id \in Ids, form \in OneLineForms(SILineInputs) : salesinvoice_edit(id, form, 2 * today)
    \/ \E id \in Ids : salesinvoice_delete(id)

SpecDocs == Init /\ [][NextDocs]_vars

(***************************************************************************)
(* SpecCalc: the pure helpers called directly on raw values.               *)
(***************************************************************************)
RawQtys == { << >>, None, << "0" >>, << "1" >>, << "3" >>, << "1", ",", "5" >>, << "-", "2" >>,
             << "x" >>, << " ", "2", " " >> }

RawValues == { << >>, None, << " " >>, << "0" >>, << "1", "0" >>, << "1", "0", "0" >>,
               << "1", "5", "0" >>, << "2", ",", "5" >>, << "2", ".", "5" >>, << "-", "2" >>,
               << "+", "3" >>, << "x" >>, << "1", ".", "5", ".", "2" >> }

RawGsts == { << >>, << "0" >>, << "5" >>, << "1", "8" >>, << "1", "2", ",", "5" >>,
             << "-", "2", "0", "0" >>, << "x" >> }

Calls ==
    {[fn |-> "safe_float", args |-> << val >>] : val \in RawValues}
    \cup {[fn |-> "calculate_line_sales", args |-> << qty, rate, disc >>] :
            qty \in RawQtys, rate \in RawValues, disc \in RawValues}
    \cup {[fn |-> "calculate_line", args |-> << qty, rate, disc, gst >>] :
            qty \in RawQtys, rate \in RawValues, disc \in RawValues, gst \in RawGsts}
    \cup {[fn |-> "save_invoice_line", args |-> << qty, rate, disc >>] :
            qty \in RawQtys \ {None}, rate \in RawValues \ {None}, disc \in RawValues \ {None}}

\* one call per behaviour, its arguments drawn from the raw values
InitCalc ==
    /\ InitDb
    /\ call \in Calls
    /\ ret = NoRet

call_safe_float ==
    /\ call.fn = "safe_float" /\ ~ret.done
    /\ ret' = [done |-> TRUE, raised |-> FALSE, value |-> safe_float(call.args[1])]
    /\ UNCHANGED << dbvars, today, resp, hist, call, masters, conn, wlock >>

call_calculate_line_sales ==
    /\ call.fn = "calculate_line_sales" /\ ~ret.done
    /\ ret' = [done |-> TRUE, raised |-> FALSE,
               value |-> calculate_line_sales(call.args[1], call.args[2], call.args[3])]
    /\ UNCHANGED << dbvars, today, resp, hist, call, masters, conn, wlock >>

call_calculate_line ==
    /\ call.fn = "calculate_line" /\ ~ret.done
    /\ ret' = [done |-> TRUE, raised |-> FALSE,
               value |-> calculate_line(call.args[1], call.args[2], call.args[3], call.args[4])]
    /\ UNCHANGED << dbvars, today, resp, hist, call, masters, conn, wlock >>

\* the per-line computation of save_invoice on one line (text values only:
\* form.getlist never yields None)
call_save_invoice_line ==
    /\ call.fn = "save_invoice_line" /\ ~ret.done
    /\ LET c == save_invoice_line(<< "1" >>, call.args[1], call.args[2], call.args[3])
       IN  ret' = [done |-> TRUE, raised |-> c.raised, value |-> c]
    /\ UNCHANGED << dbvars, today, resp, hist, call, masters, conn, wlock >>

NextCalc ==
    \/ call_safe_float
    \/ call_calculate_line_sales
    \/ call_calculate_line
    \/ call_save_invoice_line

SpecCalc == InitCalc /\ [][NextCalc]_vars

(***************************************************************************)
(* SpecConc: creation requests served concurrently.  Every request has its *)
(* own connection (get_db opens one per application context) and runs its  *)
(* statements one at a time.  The first INSERT of a request opens a        *)
(* transaction and takes the database's write lock, which is held until    *)
(* commit() or until close_db() closes the connection; uncommitted rows    *)
(* are seen by the writing connection only.                                *)
(***************************************************************************)
MaxConns == 2     \* requests in flight at once

Conns == 1..MaxConns

IdleConn == [pc |-> "idle", op |-> "none", form |-> NoForm, id |-> 0, no |-> None,
             busy |-> FALSE, tx |-> {}]

InitConc ==
    /\ sales_orders = {}
    /\ sales_order_items = NoRows
    /\ purchase_orders = {}
    /\ purchase_order_items = NoRows
    /\ sales_invoices = {}
    /\ sales_invoice_items = NoRows
    /\ sqlite_sequence = [t \in Tables |-> 0]
    /\ session = SignedIn
    /\ customers = {}
    /\ suppliers = {}
    /\ items = {}
    /\ stock_moves = {}
    /\ today = 1
    /\ resp = Resp("none", 0, NoForm, "", None)
    /\ hist = [t \in {"sales_orders", "purchase_orders"} |-> [pure |-> TRUE, nos |-> << >>]]
    /\ call = NoCall
    /\ ret = NoRet
    /\ conn = [c \in Conns |-> IdleConn]
    /\ wlock = 0

TableOf(op) == IF op = "salesorder_new" THEN "sales_orders" ELSE "purchase_orders"
Committed(op) == IF op = "salesorder_new" THEN sales_orders ELSE purchase_orders
NoCol(op) == IF op = "salesorder_new" THEN "so_no" ELSE "po_no"
Enforced(op) == op = "salesorder_new" \/ po_no_unique
InTx(c) == conn[c].pc \in {"inserted", "counted", "numbered"}

\* A variant in which a writer does not exclude other writers.
write_lock_ignored(c) == TRUE

\* The write lock can be taken by connection c: no other connection has an
\* open write transaction.
write_lock_free(c) == wlock \in {0, c}

\* A variant of close_db() that commits the open transaction of the
\* connection before closing it.
AbortCommitting(c, exc) ==
    /\ conn' = [conn EXCEPT ![c] = [@ EXCEPT !.pc = "failed", !.tx = {}]]
    /\ wlock' = IF wlock = c THEN 0 ELSE wlock
    /\ resp' = Resp(conn[c].op, 0, conn[c].form, exc, conn[c].no)
    /\ IF conn[c].pc = "start"
       THEN UNCHANGED << sales_orders, sales_order_items, purchase_orders,
                         purchase_order_items >>
       ELSE /\ sales_orders' = conn[c].tx.sales_orders
            /\ sales_order_items' = conn[c].tx.sales_order_items
            /\ purchase_orders' = conn[c].tx.purchase_orders
            /\ purchase_order_items' = conn[c].tx.purchase_order_items
    /\ UNCHANGED << sales_invoices, sales_invoice_items, sqlite_sequence, today, hist, call,
                    masters, ret >>

\* The request ends with an uncaught exception; close_db() closes the
\* connection, which discards its transaction and frees the lock it held.
Abort(c, exc) ==
    /\ conn' = [conn EXCEPT ![c] = [@ EXCEPT !.pc = "failed", !.tx = {}]]
    /\ wlock' = IF wlock = c THEN 0 ELSE wlock
    /\ resp' = Resp(conn[c].op, 0, conn[c].form, exc, conn[c].no)
    /\ UNCHANGED << dbvars, today, hist, call, masters, ret >>

\* A creation request arrives on a fresh connection.
begin_request(c, op, form) ==
    /\ conn[c].pc \in {"idle", "done", "failed"}
    /\ TotalDocs < MaxDocs
    /\ conn' = [conn EXCEPT ![c] = [IdleConn EXCEPT !.pc = "start", !.op = op, !.form = form]]
    /\ UNCHANGED << dbvars, today, resp, hist, call, masters, ret, wlock >>

\* INSERT INTO ... VALUES (?, '', ...): the placeholder row; lastrowid.
insert_placeholder(c) ==
    /\ conn[c].pc = "start"
    /\ write_lock_free(c)
    /\ LET op == conn[c].op
           id == sqlite_sequence[TableOf(op)] + 1
           row == IF op = "salesorder_new"
                  THEN [id |-> id, so_no |-> << >>, total |-> 0, grand_total |-> 0]
                  ELSE [id |-> id, po_no |-> << >>, total |-> 0, tax_total |-> 0,
                        grand_total |-> 0]
       IN  IF Enforced(op) /\ UniqueViolation(Committed(op), NoCol(op), id, << >>)
           THEN Abort(c, "IntegrityError")
           ELSE /\ conn' = [conn EXCEPT ![c] = [@ EXCEPT !.pc = "inserted", !.id = id,
                                                        !.tx = Committed(op) \cup {row}]]
                /\ wlock' = c
                /\ UNCHANGED << dbvars, today, resp, hist, call, masters, ret >>

\* The INSERT finds the database locked by another writer: the busy handler
\* sleeps and retries (sqlite3.connect's default timeout).
insert_busy(c) ==
    /\ conn[c].pc = "start"
    /\ ~write_lock_free(c)
    /\ ~conn[c].busy
    /\ conn' = [conn EXCEPT ![c].busy = TRUE]
    /\ UNCHANGED << dbvars, today, resp, hist, call, masters, ret, wlock >>

\* The timeout expires with the lock still held: OperationalError
\* "database is locked".
insert_timeout(c) ==
    /\ conn[c].pc = "start"
    /\ ~write_lock_free(c)
    /\ conn[c].busy
    /\ Abort(c, "OperationalError")

\* SELECT COUNT(*) ... LIKE ?, then the f-string that builds the number
\* (po_new skips both when the form carries a number).
count_today(c) ==
    /\ conn[c].pc = "inserted"
    /\ LET op == conn[c].op
           no == IF op = "salesorder_new"
                 THEN DocNo(SO, today, so_count_today(conn[c].tx) + 1)
                 ELSE IF conn[c].form.no \in {<< >>, None}
                 THEN DocNo(PO, today, po_count_today(conn[c].tx) + 1)
                 ELSE conn[c].form.no
       IN  conn' = [conn EXCEPT ![c] = [@ EXCEPT !.pc = "counted", !.no = no]]
    /\ UNCHANGED << dbvars, today, resp, hist, call, masters, ret, wlock >>

\* UPDATE ... SET so_no=? / po_no=? WHERE id=?
update_number(c) ==
    /\ conn[c].pc = "counted"
    /\ LET op == conn[c].op
       IN  IF Enforced(op) /\ UniqueViolation(conn[c].tx, NoCol(op), conn[c].id, conn[c].no)
           THEN Abort(c, "IntegrityError")
           ELSE /\ conn' = [conn EXCEPT ![c] =
                       [@ EXCEPT !.pc = "numbered",
                                 !.tx = {IF r.id = conn[c].id
                                         THEN [r EXCEPT ![NoCol(op)] = conn[c].no] ELSE r
                                         : r \in conn[c].tx}]]
                /\ UNCHANGED << dbvars, today, resp, hist, call, masters, ret, wlock >>

\* The line loop, the UPDATE of the totals and db.commit().
insert_lines_commit(c) ==
    /\ conn[c].pc = "numbered"
    /\ LET op == conn[c].op
           id == conn[c].id
           lines == SelectSeq(conn[c].form.lines, LAMBDA l : l.item_id # << >>)
       IN  IF op = "salesorder_new" /\ lines # << >> /\ calculate_line_params # 3
           THEN Abort(c, "TypeError")
           ELSE /\ IF op = "salesorder_new"
                   THEN /\ sales_orders' =
                              {IF r.id = id
                               THEN [r EXCEPT !.total = SumOf(so_rows(lines), "line_total"),
                                              !.grand_total = SumOf(so_rows(lines), "line_total")]
                               ELSE r : r \in conn[c].tx}
                        /\ sales_order_items' =
                              [sales_order_items EXCEPT ![id] = @ \o so_rows(lines)]
                        /\ UNCHANGED << purchase_orders, purchase_order_items >>
                   ELSE /\ purchase_orders' =
                              {IF r.id = id
                               THEN [r EXCEPT !.total = SumOf(po_rows(lines), "net"),
                                              !.tax_total = SumOf(po_rows(lines), "tax"),
                                              !.grand_total = SumOf(po_rows(lines), "line_total")]
                               ELSE r : r \in conn[c].tx}
                        /\ purchase_order_items' =
                              [purchase_order_items EXCEPT ![id] = @ \o po_rows(lines)]
                        /\ UNCHANGED << sales_orders, sales_order_items >>
                /\ sqlite_sequence' = [sqlite_sequence EXCEPT ![TableOf(op)] = id]
                /\ conn' = [conn EXCEPT ![c] = [@ EXCEPT !.pc = "done", !.tx = {}]]
                /\ wlock' = 0
                /\ resp' = Resp(op, 0, conn[c].form, "", conn[c].no)
                /\ UNCHANGED << sales_invoices, sales_invoice_items, today, hist, call, masters, ret >>

ConcForms(op) ==
    IF op = "salesorder_new"
    THEN {[no |-> << >>, lines |-> << >>], [no |-> << >>, lines |-> ScenarioLines]}
    ELSE HeaderForms({<< >>})

NextConc ==
    \/ \E c \in Conns, op \in {"salesorder_new", "po_new"} :
          \E form \in ConcForms(op) : begin_request(c, op, form)
    \/ \E c \in Conns : insert_placeholder(c)
    \/ \E c \in Conns : insert_busy(c)
    \/ \E c \in Conns : insert_timeout(c)
    \/ \E c \in Conns : count_today(c)
    \/ \E c \in Conns : update_number(c)
    \/ \E c \in Conns : insert_lines_commit(c)

SpecConc == InitConc /\ [][NextConc]_vars

(***************************************************************************)
(* SpecList: the paginated listings.  The database evaluates the filter    *)
(* and the ORDER BY; a listing is called with the number of rows that      *)
(* match its filter, and its page holds positions in the sorted result.    *)
(***************************************************************************)
MaxRows == 21     \* rows that match a listing's filter
MaxPage == 4      \* highest page number requested

Min(a, b) == IF a <= b THEN a ELSE b

\* SELECT ... LIMIT ? OFFSET ? over n sorted rows, as SQLite evaluates it: a
\* negative OFFSET counts as 0 and a negative LIMIT as no limit.  The result
\* is the sequence of the positions (1-based) of the rows returned.
limit_offset(n, limit, offset) ==
    LET slice(start, count) == [i \in 1..count |-> start + i]
        from(start) ==
            slice(start, IF limit < 0 THEN Max(n - start, 0)
                         ELSE Max(Min(limit, n - start), 0))
    IN  from(Max(offset, 0))

\* math.ceil(a / b) for b > 0
ceil(a, b) == IF a % b = 0 THEN a \div b ELSE a \div b + 1

\* pages = max(1, -(-total // per_page)); LIMIT per_page OFFSET (page-1)*per_page
customer_list(total, per_page, page) ==
    [total |-> total, per_page |-> per_page, page |-> page,
     pages |-> Max(1, 0 - ((0 - total) \div per_page)),
     rows |-> limit_offset(total, per_page, (page - 1) * per_page)]

\* pages = (total + per_page - 1) // per_page
supplier_list(total, per_page, page) ==
    [total |-> total, per_page |-> per_page, page |-> page,
     pages |-> (total + per_page - 1) \div per_page,
     rows |-> limit_offset(total, per_page, (page - 1) * per_page)]

\* pages = max(1, -(-total // per_page))
items_list(total, per_page, page) ==
    [total |-> total, per_page |-> per_page, page |-> page,
     pages |-> Max(1, 0 - ((0 - total) \div per_page)),
     rows |-> limit_offset(total, per_page, (page - 1) * per_page)]

\* per_page = 10; total_pages = (total_count + per_page - 1) // per_page
salesorder_list(total, page) ==
    [total |-> total, per_page |-> 10, page |-> page,
     pages |-> (total + 10 - 1) \div 10,
     rows |-> limit_offset(total, 10, (page - 1) * 10)]

\* per_page = 20; total_pages = (total + per_page - 1) // per_page
salesinvoice_list(total, page) ==
    [total |-> total, per_page |-> 20, page |-> page,
     pages |-> (total + 20 - 1) \div 20,
     rows |-> limit_offset(total, 20, (page - 1) * 20)]

\* total_pages = ceil(total_count / per_page)
po_list(total, per_page, page) ==
    [total |-> total, per_page |-> per_page, page |-> page,
     pages |-> ceil(total, per_page),
     rows |-> limit_offset(total, per_page, (page - 1) * per_page)]

\* Values of the per_page query parameter (the default is 20, 10 for
\* purchase orders) and of the page query parameter.
PerPages == {1, 3, 10, 20}
Pages == (0 - 1)..MaxPage

QueryListings == {"customer_list", "supplier_list", "items_list", "po_list"}
FixedListings == {"salesorder_list", "salesinvoice_list"}
Listings == QueryListings \cup FixedListings

ListCalls ==
    {[fn |-> fn, args |-> << total, per_page, page >>] :
        fn \in QueryListings, total \in 0..MaxRows, per_page \in PerPages, page \in Pages}
    \cup {[fn |-> fn, args |-> << total, page >>] :
        fn \in FixedListings, total \in 0..MaxRows, page \in Pages}

\* one listing request per behaviour
InitList ==
    /\ InitDb
    /\ call \in ListCalls
    /\ ret = NoRet

Rendered(value) ==
    /\ ~ret.done
    /\ ret' = [done |-> TRUE, raised |-> FALSE, value |-> value]
    /\ UNCHANGED << dbvars, today, resp, hist, call, masters, conn, wlock >>

call_customer_list ==
    /\ call.fn = "customer_list"
    /\ Rendered(customer_list(call.args[1], call.args[2], call.args[3]))

call_supplier_list ==
    /\ call.fn = "supplier_list"
    /\ Rendered(supplier_list(call.args[1], call.args[2], call.args[3]))

call_items_list ==
    /\ call.fn = "items_list"
    /\ Rendered(items_list(call.args[1], call.args[2], call.args[3]))

call_salesorder_list ==
    /\ call.fn = "salesorder_list"
    /\ Rendered(salesorder_list(call.args[1], call.args[2]))

call_salesinvoice_list ==
    /\ call.fn = "salesinvoice_list"
    /\ Rendered(salesinvoice_list(call.args[1], call.args[2]))

call_po_list ==
    /\ call.fn = "po_list"
    /\ Rendered(po_list(call.args[1], call.args[2], call.args[3]))

NextList ==
    \/ call_customer_list
    \/ call_supplier_list
    \/ call_items_list
    \/ call_salesorder_list
    \/ call_salesinvoice_list
    \/ call_po_list

SpecList == InitList /\ [][NextList]_vars

(***************************************************************************)
(* SpecWords: the amount-in-words filter.  The optional num2words library  *)
(* is taken as absent (num2words = None), so inr_words runs its own        *)
(* implementation; results are a text, or raised = TRUE for an exception.  *)
(***************************************************************************)
\* Frames the interpreter allows before RecursionError.  The recursions that
\* terminate are at most three frames deep.
recursion_limit == 10

ones == << "zero", "one", "two", "three", "four", "five", "six", "seven", "eight", "nine",
           "ten", "eleven", "twelve", "thirteen", "fourteen", "fifteen", "sixteen",
           "seventeen", "eighteen", "nineteen" >>

tens == << "", "", "twenty", "thirty", "forty", "fifty", "sixty", "seventy", "eighty", "ninety" >>

\* " ".join(parts)
RECURSIVE join(_, _)
join(sep, parts) ==
    IF parts = << >> THEN ""
    ELSE IF Len(parts) = 1 THEN parts[1]
    ELSE parts[1] \o sep \o join(sep, Tail(parts))

\* two_digits: the .strip() changes nothing, tens[t] is a word for t >= 2
two_digits(num) ==
    IF num < 20 THEN ones[num + 1]
    ELSE tens[(num \div 10) + 1] \o (IF num % 10 # 0 THEN " " \o ones[(num % 10) + 1] ELSE "")

three_digits(num) ==
    LET parts(h, rem) ==
            (IF h # 0 THEN << ones[h + 1] \o " hundred" >> ELSE << >>)
            \o (IF rem # 0 THEN << two_digits(rem) >> ELSE << >>)
        joined(ps) == IF ps # << >> THEN join(" ", ps) ELSE "zero"
    IN  joined(parts(num \div 100, num % 100))

\* A variant that takes the lakh and thousand groups from n, not from the
\* remainder of the group before.
RECURSIVE _inr_number_to_words_recount(_, _)
_inr_number_to_words_recount(n, frames) ==
    LET appended(w, unit) == [raised |-> w.raised, parts |-> << w.text \o unit >>]
        group(k, unit) ==
            IF k = 0 THEN [raised |-> FALSE, parts |-> << >>]
            ELSE appended(_inr_number_to_words_recount(k, frames + 1), unit)
        last(rem) == [parts |-> IF rem # 0 THEN << three_digits(rem) >> ELSE << >>]
        all(c, l, t, r) ==
            IF c.raised \/ l.raised \/ t.raised THEN [raised |-> TRUE, text |-> ""]
            ELSE [raised |-> FALSE, text |-> join(" ", c.parts \o l.parts \o t.parts \o r.parts)]
    IN  IF frames > recursion_limit THEN [raised |-> TRUE, text |-> ""]
        ELSE IF n = 0 THEN [raised |-> FALSE, text |-> "zero"]
        ELSE all(group(n \div 10000000, " crore"),
                 group(n \div 100000, " lakh"),
                 group(n \div 1000, " thousand"),
                 last(n % 1000))

\* _inr_number_to_words(n), entered with `frames` frames of it on the stack.
\* divmod is floor division, as \div and % are.
RECURSIVE _inr_number_to_words(_, _)
_inr_number_to_words(n, frames) ==
    LET appended(w, unit) == [raised |-> w.raised, parts |-> << w.text \o unit >>]
        \* if k: parts.append(_inr_number_to_words(k) + unit)
        group(k, unit) ==
            IF k = 0 THEN [raised |-> FALSE, parts |-> << >>]
            ELSE appended(_inr_number_to_words(k, frames + 1), unit)
        \* if rem: parts.append(three_digits(rem))
        last(rem) == [parts |-> IF rem # 0 THEN << three_digits(rem) >> ELSE << >>]
        all(c, l, t, r) ==
            IF c.raised \/ l.raised \/ t.raised THEN [raised |-> TRUE, text |-> ""]
            ELSE [raised |-> FALSE, text |-> join(" ", c.parts \o l.parts \o t.parts \o r.parts)]
    IN  IF frames > recursion_limit THEN [raised |-> TRUE, text |-> ""]
        ELSE IF n = 0 THEN [raised |-> FALSE, text |-> "zero"]
        ELSE all(group(n \div 10000000, " crore"),
                 group((n % 10000000) \div 100000, " lakh"),
                 group((n % 100000) \div 1000, " thousand"),
                 last(n % 1000))

\* Amounts handed to the filter: None, a text, or a number with two decimal
\* places (v in hundredths), on which round(.., 2) changes nothing.
NoAmount == [type |-> "NoneType", text |-> << >>, v |-> 0]

TextAmount(s) == [type |-> "str", text |-> s, v |-> 0]

NumAmount(hundredths) == [type |-> "float", text |-> << >>, v |-> hundredths]

\* float(amount or 0) in hundredths; ok = FALSE is the exception float raises
float_amount_or_0(amount) ==
    LET scaled(f) == [ok |-> f.ok, v |-> f.v * 10]
    IN  IF amount.type = "NoneType" THEN [ok |-> TRUE, v |-> 0]
        ELSE IF amount.type = "float" THEN [ok |-> TRUE, v |-> amount.v]
        ELSE IF amount.text = << >> THEN [ok |-> TRUE, v |-> 0]
        ELSE scaled(float(amount.text))

\* int(n) of a value in hundredths: truncation towards zero
int(hundredths) ==
    IF hundredths >= 0 THEN hundredths \div 100 ELSE 0 - ((0 - hundredths) \div 100)

\* A variant that appends the paise phrase whatever the paise.
inr_words_always_paise(amount) ==
    LET phrase(r, p) ==
            IF r.raised \/ p.raised THEN [raised |-> TRUE, text |-> ""]
            ELSE [raised |-> FALSE,
                  text |-> r.text \o " rupees" \o " and " \o p.text \o " paise" \o " only"]
        split(n, rupees) ==
            phrase(_inr_number_to_words(rupees, 1), _inr_number_to_words(n - rupees * 100, 1))
        words(n) == split(n, int(n))
        value(f) == IF f.ok THEN f.v ELSE 0
    IN  words(value(float_amount_or_0(amount)))

inr_words(amount) ==
    LET phrase(r, p) ==
            IF r.raised \/ p.raised THEN [raised |-> TRUE, text |-> ""]
            ELSE [raised |-> FALSE, text |-> r.text \o " rupees" \o p.text \o " only"]
        with_unit(w) == [raised |-> w.raised, text |-> " and " \o w.text \o " paise"]
        \* if paise: words += " and " + ... + " paise"
        minor(paise) ==
            IF paise # 0 THEN with_unit(_inr_number_to_words(paise, 1))
            ELSE [raised |-> FALSE, text |-> ""]
        \* rupees = int(n); paise = int(round((n - rupees) * 100))
        split(n, rupees) == phrase(_inr_number_to_words(rupees, 1), minor(n - rupees * 100))
        words(n) == split(n, int(n))
        \* except Exception: n = 0.0
        value(f) == IF f.ok THEN f.v ELSE 0
    IN  words(value(float_amount_or_0(amount)))

WordNumbers ==
    { c * 10000000 + l * 100000 + t * 1000 + r :
        c \in {0, 1, 12, 150}, l \in {0, 1, 10, 99}, t \in {0, 1, 20, 99},
        r \in {0, 7, 13, 40, 99, 100, 110, 999} }

Amounts ==
    { NoAmount, TextAmount(<< >>), TextAmount(<< "x" >>), TextAmount(<< "1", "2", ".", "5" >>),
      TextAmount(<< "-", "5" >>) }
    \cup { NumAmount(v) : v \in {0, 1, 50, 99, 100, 10000, 10050, 123456, 100000000,
                                 0 - 1, 0 - 50, 0 - 500, 0 - 12345} }

WordCalls ==
    {[fn |-> "_inr_number_to_words", args |-> << n >>] : n \in WordNumbers}
    \cup {[fn |-> "inr_words", args |-> << a >>] : a \in Amounts}

InitWords ==
    /\ InitDb
    /\ call \in WordCalls
    /\ ret = NoRet

Returned(w) ==
    /\ ~ret.done
    /\ ret' = [done |-> TRUE, raised |-> w.raised, value |-> w.text]
    /\ UNCHANGED << dbvars, today, resp, hist, call, masters, conn, wlock >>

call_inr_number_to_words ==
    /\ call.fn = "_inr_number_to_words"
    /\ Returned(_inr_number_to_words(call.args[1], 1))

call_inr_words ==
    /\ call.fn = "inr_words"
    /\ Returned(inr_words(call.args[1]))

NextWords ==
    \/ call_inr_number_to_words
    \/ call_inr_words

SpecWords == InitWords /\ [][NextWords]_vars

(***************************************************************************)
(* SpecBarcode: POST /items/barcodes.  A request names item ids and, per   *)
(* id, a copy count; the answer is a redirect with a flashed message, an   *)
(* archive of page images, or an exception.  A label entry is identified   *)
(* by its place in the request and its copy index; drawing a cell is taken *)
(* to succeed.                                                             *)
(***************************************************************************)
\* Layout constants
PAGE_H == 3508

COLS == 5

MARGIN_Y == 50

GAP_Y == 40

CELL_H == 320

ROWS == (PAGE_H - 2 * MARGIN_Y) \div (CELL_H + GAP_Y)

per_page == COLS * ROWS

\* Most item_id fields in one request
MaxSelected == 2

\* ids of the rows of table items, and the ids a request may name (9: no row)
BarcodeItems == {1, 2}

SelectableIds == BarcodeItems \cup {9}

\* The qty[<id>] field of the form: absent, a text int() rejects, or an integer
QtyNone == [type |-> "none", v |-> 0]

QtyBad == [type |-> "bad", v |-> 0]

QtyInt(k) == [type |-> "int", v |-> k]

Qtys == {QtyNone, QtyBad} \cup {QtyInt(k) : k \in {0 - 1, 0, 1, 44, 45, 46, 91}}

\* copies = int(request.form.get(f'qty[{item_id}]', 1)); ok = FALSE: ValueError
copies_of(q) ==
    IF q.type = "none" THEN [ok |-> TRUE, v |-> 1]
    ELSE IF q.type = "bad" THEN [ok |-> FALSE, v |-> 0]
    ELSE [ok |-> TRUE, v |-> q.v]

\* for _ in range(copies): barcodes.append({...})
label_entries(pos, item_id, copies) ==
    IF copies > 0 THEN [k \in 1..copies |-> [pos |-> pos, item_id |-> item_id, copy |-> k]]
    ELSE << >>

\* The loop over item_ids from position pos on: an id without a row is
\* skipped, after its copy count has been converted.
RECURSIVE collect(_, _, _)
collect(item_ids, qty, pos) ==
    LET extended(entries, rest) ==
            [raised |-> rest.raised, barcodes |-> entries \o rest.barcodes]
        one(item_id, c) ==
            IF ~c.ok THEN [raised |-> TRUE, barcodes |-> << >>]
            ELSE extended(IF item_id \in BarcodeItems THEN label_entries(pos, item_id, c.v)
                          ELSE << >>,
                          collect(item_ids, qty, pos + 1))
    IN  IF pos > Len(item_ids) THEN [raised |-> FALSE, barcodes |-> << >>]
        ELSE one(item_ids[pos], copies_of(qty[item_ids[pos]]))

BarcodeAnswer(kind, flash, pages) ==
    [raised |-> kind = "error", kind |-> kind, flash |-> flash, pages |-> pages]

\* A variant whose pages take per_page + 1 entries, still per_page apart.
pages_of_overlapping(barcodes) ==
    LET page(start) == SubSeq(barcodes, start + 1, Min(start + per_page + 1, Len(barcodes)))
    IN  [page_idx \in 1..ceil(Len(barcodes), per_page) |-> page((page_idx - 1) * per_page)]

\* total_pages = math.ceil(len(barcodes) / per_page); page page_idx (from 0)
\* holds barcodes[start:end], start = page_idx * per_page
pages_of(barcodes) ==
    LET page(start) == SubSeq(barcodes, start + 1, Min(start + per_page, Len(barcodes)))
    IN  [page_idx \in 1..ceil(Len(barcodes), per_page) |-> page((page_idx - 1) * per_page)]

\* A variant that sends the archive whatever was collected.
items_barcodes_unguarded(form) ==
    LET built(c) ==
            IF c.raised THEN BarcodeAnswer("error", "", << >>)
            ELSE BarcodeAnswer("send_file", "", pages_of(c.barcodes))
    IN  built(collect(form.item_ids, form.qty, 1))

items_barcodes(form) ==
    LET built(c) ==
            IF c.raised THEN BarcodeAnswer("error", "", << >>)
            ELSE IF c.barcodes = << >>
                 THEN BarcodeAnswer("redirect", "No barcodes generated", << >>)
            ELSE BarcodeAnswer("send_file", "", pages_of(c.barcodes))
    IN  IF form.item_ids = << >> THEN BarcodeAnswer("redirect", "No items selected", << >>)
        ELSE built(collect(form.item_ids, form.qty, 1))

Selections == UNION {[1..n -> SelectableIds] : n \in 0..MaxSelected}

\* The forms: a qty field only for the ids selected
BarcodeForms ==
    {f \in [item_ids : Selections, qty : [SelectableIds -> Qtys]] :
        \A id \in SelectableIds :
            (\A i \in 1..Len(f.item_ids) : f.item_ids[i] # id) => f.qty[id] = QtyNone}

InitBarcode ==
    /\ InitDb
    /\ call \in {[fn |-> "items_barcodes", args |-> << f >>] : f \in BarcodeForms}
    /\ ret = NoRet

Answered(a) ==
    /\ ~ret.done
    /\ ret' = [done |-> TRUE, raised |-> a.raised, value |-> a]
    /\ UNCHANGED << dbvars, today, resp, hist, call, masters, conn, wlock >>

call_items_barcodes ==
    /\ call.fn = "items_barcodes"
    /\ Answered(items_barcodes(call.args[1]))

NextBarcode == call_items_barcodes

SpecBarcode == InitBarcode /\ [][NextBarcode]_vars

(***************************************************************************)
(* SpecFont: the loop of items_barcodes that shrinks the font of the item  *)
(* name until the name fits its cell.  One behaviour is one cell: call     *)
(* holds what is drawn (the length of the name, the width of a glyph in    *)
(* tenths of the font size, the font that was loaded), ret.value the size  *)
(* of font_name (0 for the built-in bitmap font, which has no size), and   *)
(* ret.done says that the loop has been left.                              *)
(***************************************************************************)
PAGE_W == 2480

MARGIN_X == 50

GAP_X == 30

CELL_W == (PAGE_W - 2 * MARGIN_X - (COLS - 1) * GAP_X) \div COLS

max_width == CELL_W - 10

\* font_text = ImageFont.truetype("DejaVuSans.ttf", 18)
font_text_size == 18

\* Longest item name drawn
MaxNameLen == 80

\* The fonts: the TrueType file was found, or the except branch took
\* ImageFont.load_default()
Fonts == {"truetype", "default"}

GlyphTenths == {5, 6}

\* w of draw.textsize(name, font): the bitmap font has glyphs 6 wide
textsize(len, glyph, font, size) ==
    IF font = "truetype" THEN (len * glyph * size) \div 10 ELSE len * 6

\* A loop condition without the floor.
shrink_condition_no_floor(w, size) == w > max_width

\* while w > max_width and font_name.size > 12
shrink_condition(w, size) == w > max_width /\ size > 12

FontCalls ==
    {[fn |-> "font_shrink", args |-> << len, glyph, font >>] :
        len \in 0..MaxNameLen, glyph \in GlyphTenths, font \in Fonts}

\* font_name = font_text; w, h = draw.textsize(name, font=font_name)
InitFont ==
    /\ InitDb
    /\ call \in FontCalls
    /\ ret = [done |-> FALSE, raised |-> FALSE,
              value |-> IF call.args[3] = "truetype" THEN font_text_size ELSE 0]

w_now == textsize(call.args[1], call.args[2], call.args[3], ret.value)

\* One iteration: font_name = ImageFont.truetype("DejaVuSans.ttf", font_name.size - 2)
font_shrink_iteration ==
    /\ call.fn = "font_shrink"
    /\ ~ret.done
    /\ call.args[3] = "truetype"
    /\ shrink_condition(w_now, ret.value)
    /\ ret' = [ret EXCEPT !.value = @ - 2]
    /\ UNCHANGED << dbvars, today, resp, hist, call, masters, conn, wlock >>

\* The condition is false: the name is drawn with font_name
font_shrink_exit ==
    /\ call.fn = "font_shrink"
    /\ ~ret.done
    /\ \/ call.args[3] = "truetype" /\ ~shrink_condition(w_now, ret.value)
       \/ call.args[3] = "default" /\ ~(w_now > max_width)
    /\ ret' = [ret EXCEPT !.done = TRUE]
    /\ UNCHANGED << dbvars, today, resp, hist, call, masters, conn, wlock >>

\* The bitmap font has no attribute size: evaluating the second operand of
\* the condition raises AttributeError
font_shrink_raise ==
    /\ call.fn = "font_shrink"
    /\ ~ret.done
    /\ call.args[3] = "default"
    /\ w_now > max_width
    /\ ret' = [ret EXCEPT !.done = TRUE, !.raised = TRUE]
    /\ UNCHANGED << dbvars, today, resp, hist, call, masters, conn, wlock >>

NextFont ==
    \/ font_shrink_iteration
    \/ font_shrink_exit
    \/ font_shrink_raise

\* The request's thread keeps executing the loop.
SpecFont == InitFont /\ [][NextFont]_vars /\ WF_vars(NextFont)

(***************************************************************************)
(* The session and the master tables: customers, suppliers.  A request is  *)
(* answered by a status, the message it flashed and the endpoint it        *)
(* redirects to ("" when it renders a page or sends a file); exc names an  *)
(* exception that left the handler ("" when none).  A route decorated with *)
(* @login_required is its handler wrapped by login_required.               *)
(***************************************************************************)
\* Rows ever inserted into one master table
MaxEntities == 2

EntityIds == 1..MaxEntities

\* A text field of a form: absent (None), empty, blank, or a name
NameInputs == {None, << >>, << " " >>, << "A" >>, << "B" >>}

\* The endpoints registered by @app.route that handlers redirect to
Endpoints == {"login", "dashboard", "customer_list", "customer_new", "supplier_list",
              "items_list", "item_new", "items_barcodes", "salesorder_list", "po_list",
              "salesinvoice_list", "new_stock_move", "stock_moves_list"}

Answer(op, id, form, status, flash, location, exc) ==
    [op |-> op, id |-> id, form |-> form, exc |-> exc, no |-> None, day |-> today,
     status |-> status, flash |-> flash, location |-> location]

\* return redirect(url_for(endpoint)) after flash(message): url_for raises
\* BuildError for an endpoint that no route registers
redirect(op, id, form, flash, endpoint) ==
    IF endpoint \in Endpoints THEN Answer(op, id, form, 302, flash, endpoint, "")
    ELSE Answer(op, id, form, 500, flash, "", "BuildError")

NextId(t) == sqlite_sequence[t] + 1

\* request.form.get(field, '').strip()
get_stripped(value) == IF value = None THEN << >> ELSE strip(value)

\* login_required(f): without session['user_id'] the request is answered by
\* a redirect to login and f is not called
login_required(op, id, form, f) ==
    \/ /\ "user_id" \notin session
       /\ resp' = redirect(op, id, form, "Please log in to access this page.", "login")
       /\ UNCHANGED << dbvars, masters, hist, today, call, ret, conn, wlock >>
    \/ /\ "user_id" \in session
       /\ f

\* POST /login: session.clear() and the user's keys when the password matches
login(matches) ==
    /\ IF matches
       THEN /\ session' = SignedIn
            /\ resp' = redirect("login", 0, NoForm, "Logged in successfully!", "dashboard")
       ELSE /\ resp' = Answer("login", 0, NoForm, 200, "Invalid email or password", "", "")
            /\ UNCHANGED session
    /\ UNCHANGED << dbvars, customers, suppliers, items, stock_moves, hist, today, call, ret,
                    conn, wlock >>

logout ==
    /\ session' = SignedOut
    /\ resp' = redirect("logout", 0, NoForm, "You have been logged out.", "login")
    /\ UNCHANGED << dbvars, customers, suppliers, items, stock_moves, hist, today, call, ret,
                    conn, wlock >>

\* GET /customers
customer_list_page ==
    login_required("customer_list", 0, NoForm,
        /\ resp' = Answer("customer_list", 0, NoForm, 200, "", "", "")
        /\ UNCHANGED << dbvars, masters, hist, today, call, ret, conn, wlock >>)

\* POST /customers/new
customer_new(form) ==
    login_required("customer_new", 0, form,
        /\ IF get_stripped(form.name) = << >>
           THEN /\ resp' = redirect("customer_new", 0, form, "Customer name is required.",
                                    "customers_new")
                /\ UNCHANGED << customers, sqlite_sequence >>
           ELSE /\ NextId("customers") \in EntityIds
                /\ customers' = customers \cup
                       {[id |-> NextId("customers"), name |-> get_stripped(form.name)]}
                /\ sqlite_sequence' = [sqlite_sequence EXCEPT !["customers"] = @ + 1]
                /\ resp' = redirect("customer_new", 0, form, "Customer added successfully!",
                                    "customer_list")
        /\ UNCHANGED << sales_orders, sales_order_items, purchase_orders, purchase_order_items,
                        sales_invoices, sales_invoice_items, session, suppliers, items,
                        stock_moves, hist, today, call, ret, conn, wlock >>)

\* GET or POST /customers/<id>/edit
customer_edit(id, method, form) ==
    login_required("customer_edit", id, form,
        /\ IF ~\E c \in customers : c.id = id
           THEN /\ resp' = redirect("customer_edit", id, form, "Customer not found.",
                                    "customers_list")
                /\ UNCHANGED customers
           ELSE IF method = "POST"
           THEN /\ customers' = {IF c.id = id THEN [c EXCEPT !.name = get_stripped(form.name)]
                                 ELSE c : c \in customers}
                /\ resp' = redirect("customer_edit", id, form,
                                    "Customer updated successfully!", "customer_list")
           ELSE /\ resp' = Answer("customer_edit", id, form, 200, "", "", "")
                /\ UNCHANGED customers
        /\ UNCHANGED << dbvars, session, suppliers, items, stock_moves, hist, today, call, ret,
                        conn, wlock >>)

\* POST /customers/<id>/delete
customer_delete(id) ==
    login_required("customer_delete", id, NoForm,
        /\ customers' = {c \in customers : c.id # id}
        /\ resp' = redirect("customer_delete", id, NoForm, "Customer deleted.", "customer_list")
        /\ UNCHANGED << dbvars, session, suppliers, items, stock_moves, hist, today, call, ret,
                        conn, wlock >>)

\* GET /suppliers
supplier_list_page ==
    /\ resp' = Answer("supplier_list", 0, NoForm, 200, "", "", "")
    /\ UNCHANGED << dbvars, masters, hist, today, call, ret, conn, wlock >>

\* INSERT INTO suppliers of the names given, in one transaction: name is
\* NOT NULL, and the first None raises IntegrityError before any commit
insert_suppliers(op, form, names, flash) ==
    IF \E i \in 1..Len(names) : names[i] = None
    THEN /\ resp' = Answer(op, 0, form, 500, "", "", "IntegrityError")
         /\ UNCHANGED << suppliers, sqlite_sequence >>
    ELSE /\ NextId("suppliers") + Len(names) - 1 \in 0..MaxEntities
         /\ suppliers' = suppliers \cup
                {[id |-> sqlite_sequence["suppliers"] + i, name |-> names[i]] :
                    i \in 1..Len(names)}
         /\ sqlite_sequence' = [sqlite_sequence EXCEPT !["suppliers"] = @ + Len(names)]
         /\ resp' = redirect(op, 0, form, flash, "supplier_list")

\* POST /suppliers/new
supplier_new(form) ==
    /\ insert_suppliers("supplier_new", form, << form.name >>, "Supplier created successfully")
    /\ UNCHANGED << sales_orders, sales_order_items, purchase_orders, purchase_order_items,
                    sales_invoices, sales_invoice_items, session, customers, items,
                    stock_moves, hist, today, call, ret, conn, wlock >>

\* GET or POST /suppliers/<id>/edit
supplier_edit(id, method, form) ==
    /\ IF ~\E s \in suppliers : s.id = id
       THEN /\ resp' = redirect("supplier_edit", id, form, "Supplier not found", "supplier_list")
            /\ UNCHANGED suppliers
       ELSE IF method = "POST" /\ form.name = None
       THEN /\ resp' = Answer("supplier_edit", id, form, 500, "", "", "IntegrityError")
            /\ UNCHANGED suppliers
       ELSE IF method = "POST"
       THEN /\ suppliers' = {IF s.id = id THEN [s EXCEPT !.name = form.name] ELSE s :
                                s \in suppliers}
            /\ resp' = redirect("supplier_edit", id, form, "Supplier updated successfully",
                                "supplier_list")
       ELSE /\ resp' = Answer("supplier_edit", id, form, 200, "", "", "")
            /\ UNCHANGED suppliers
    /\ UNCHANGED << dbvars, session, customers, items, stock_moves, hist, today, call, ret,
                    conn, wlock >>

\* POST /suppliers/<id>/delete
supplier_delete(id) ==
    /\ suppliers' = {s \in suppliers : s.id # id}
    /\ resp' = redirect("supplier_delete", id, NoForm, "Supplier deleted successfully",
                        "supplier_list")
    /\ UNCHANGED << dbvars, session, customers, items, stock_moves, hist, today, call, ret,
                    conn, wlock >>

\* GET /suppliers/export.csv
supplier_export_csv ==
    /\ resp' = Answer("supplier_export_csv", 0, NoForm, 200, "", "", "")
    /\ UNCHANGED << dbvars, masters, hist, today, call, ret, conn, wlock >>

\* POST /suppliers/import with a .csv file: names holds the name column of
\* its rows (None where the file has no such column)
supplier_import(names) ==
    /\ insert_suppliers("supplier_import", [name |-> None, rows |-> names], names,
                        "Suppliers imported successfully")
    /\ UNCHANGED << sales_orders, sales_order_items, purchase_orders, purchase_order_items,
                    sales_invoices, sales_invoice_items, session, customers, items,
                    stock_moves, hist, today, call, ret, conn, wlock >>

NameForms == [name : NameInputs]

ImportedNames == {<< >>, << << "A" >> >>, << None >>, << << "A" >>, << "B" >> >>}

(***************************************************************************)
(* SpecAuth: a browser that signs in and out and sends requests to the     *)
(* customer and supplier routes and to a document route.                   *)
(***************************************************************************)
\* A browser without a session cookie
InitAuth ==
    /\ InitSession(SignedOut)
    /\ call = NoCall
    /\ ret = NoRet

\* The forms and files of this browser
AuthForms == [name : {<< >>, << "A" >>}]

AuthFiles == {<< << "A" >> >>}

NextAuth ==
    \/ \E matches \in BOOLEAN : login(matches)
    \/ logout
    \/ customer_list_page
    \/ \E form \in AuthForms : customer_new(form)
    \/ \E id \in EntityIds, form \in AuthForms : customer_edit(id, "POST", form)
    \/ \E id \in EntityIds : customer_delete(id)
    \/ supplier_list_page
    \/ \E form \in AuthForms : supplier_new(form)
    \/ \E id \in EntityIds, form \in AuthForms : supplier_edit(id, "POST", form)
    \/ \E id \in EntityIds : supplier_delete(id)
    \/ supplier_export_csv
    \/ \E names \in AuthFiles : supplier_import(names)
    \/ \E id \in Ids : login_required("salesorder_delete", id, NoForm, salesorder_delete(id))

SpecAuth == InitAuth /\ [][NextAuth]_vars

(***************************************************************************)
(* Items and stock moves.  A quantity is held in tenths, as float() of the *)
(* document forms is.                                                      *)
(***************************************************************************)
\* f"ITEM{item_id:04d}"
ItemSku(item_id) == << "I", "T", "E", "M", "0", "0", "0", DigitChar(item_id) >>

\* value or None
or_None(value) == IF value = << >> THEN None ELSE value

\* The rows of a table other than row id hold the SKU (UNIQUE; NULLs differ)
sku_taken(sku, id) == sku # None /\ \E i \in items : i.id # id /\ i.sku = sku

\* POST /items/new.  form['name'] of a form without the field raises
\* BadRequestKeyError (400); an exception of the INSERT or of the UPDATE
\* is caught, nothing is committed and the form is rendered again.
item_new(form) ==
    login_required("item_new", 0, form,
        /\ IF form.name = None
           THEN /\ resp' = Answer("item_new", 0, form, 400, "", "", "BadRequestKeyError")
                /\ UNCHANGED << items, sqlite_sequence >>
           ELSE IF strip(form.name) = << >>
           THEN /\ resp' = redirect("item_new", 0, form, "Item name is required", "item_new")
                /\ UNCHANGED << items, sqlite_sequence >>
           ELSE IF sku_taken(IF or_None(form.sku) = None THEN ItemSku(NextId("items"))
                             ELSE form.sku, 0)
           THEN /\ resp' = Answer("item_new", 0, form, 200, "Error creating item", "", "")
                /\ UNCHANGED << items, sqlite_sequence >>
           ELSE /\ NextId("items") \in EntityIds
                /\ items' = items \cup
                       {[id |-> NextId("items"),
                         sku |-> IF or_None(form.sku) = None THEN ItemSku(NextId("items"))
                                 ELSE form.sku,
                         name |-> strip(form.name)]}
                /\ sqlite_sequence' = [sqlite_sequence EXCEPT !["items"] = @ + 1]
                /\ resp' = redirect("item_new", 0, form, "Item created successfully",
                                    "items_list")
        /\ UNCHANGED << sales_orders, sales_order_items, purchase_orders, purchase_order_items,
                        sales_invoices, sales_invoice_items, session, customers, suppliers,
                        stock_moves, hist, today, call, ret, conn, wlock >>)

\* GET or POST /items/<item_id>/edit
item_edit(item_id, method, form) ==
    login_required("item_edit", item_id, form,
        /\ IF ~\E i \in items : i.id = item_id
           THEN /\ resp' = redirect("item_edit", item_id, form, "Item not found", "items_list")
                /\ UNCHANGED items
           ELSE IF method = "POST" /\ (form.name = None \/ sku_taken(or_None(form.sku), item_id))
           THEN /\ resp' = Answer("item_edit", item_id, form, 200, "Error updating item", "", "")
                /\ UNCHANGED items
           ELSE IF method = "POST"
           THEN /\ items' = {IF i.id = item_id
                             THEN [i EXCEPT !.sku = or_None(form.sku), !.name = strip(form.name)]
                             ELSE i : i \in items}
                /\ resp' = redirect("item_edit", item_id, form, "Item updated successfully",
                                    "items_list")
           ELSE /\ resp' = Answer("item_edit", item_id, form, 200, "", "", "")
                /\ UNCHANGED items
        /\ UNCHANGED << dbvars, session, customers, suppliers, stock_moves, hist, today, call,
                        ret, conn, wlock >>)

\* POST /items/<item_id>/delete: no foreign key is enforced (the connection
\* never sets PRAGMA foreign_keys), so rows that name the item stay
\* A variant whose DELETE also removes the stock moves of the item.
item_delete_with_moves(item_id) ==
    login_required("item_delete", item_id, NoForm,
        /\ items' = {i \in items : i.id # item_id}
        /\ stock_moves' = {m \in stock_moves : m.item_id # item_id}
        /\ resp' = redirect("item_delete", item_id, NoForm, "Item deleted successfully",
                            "items_list")
        /\ UNCHANGED << dbvars, session, customers, suppliers, hist, today, call, ret, conn,
                        wlock >>)

item_delete(item_id) ==
    login_required("item_delete", item_id, NoForm,
        /\ items' = {i \in items : i.id # item_id}
        /\ resp' = redirect("item_delete", item_id, NoForm, "Item deleted successfully",
                            "items_list")
        /\ UNCHANGED << dbvars, session, customers, suppliers, stock_moves, hist, today, call,
                        ret, conn, wlock >>)

\* INSERT INTO items ... ON CONFLICT(sku) DO UPDATE for the rows of an import
\* file, in order; a row without Name is skipped.  The result is the table
\* and the sequence after the last row.
RECURSIVE upsert_rows(_, _, _)
upsert_rows(rows, its, seq) ==
    LET updated(row) ==
            {IF i.sku = row.SKU THEN [i EXCEPT !.name = row.Name] ELSE i : i \in its}
        inserted(row) == its \cup {[id |-> seq + 1, sku |-> row.SKU, name |-> row.Name]}
        step(row) ==
            IF row.Name = None \/ row.Name = << >> THEN upsert_rows(Tail(rows), its, seq)
            ELSE IF row.SKU # None /\ \E i \in its : i.sku = row.SKU
            THEN upsert_rows(Tail(rows), updated(row), seq)
            ELSE upsert_rows(Tail(rows), inserted(row), seq + 1)
    IN  IF rows = << >> THEN [items |-> its, seq |-> seq] ELSE step(Head(rows))

\* POST /items/import.  file.kind is "none" (no file part), "csv", "xlsx" or
\* "other"; a blank cell is '' in a .csv file and None in a workbook.
items_import(file) ==
    LET imported(r) ==
            /\ r.seq \in 0..MaxEntities
            /\ items' = r.items
            /\ sqlite_sequence' = [sqlite_sequence EXCEPT !["items"] = r.seq]
            /\ resp' = redirect("items_import", 0, file, "Imported items successfully",
                                "items_list")
    IN  login_required("items_import", 0, file,
            /\ IF file.kind = "none"
               THEN /\ resp' = redirect("items_import", 0, file, "No file uploaded", "items_list")
                    /\ UNCHANGED << items, sqlite_sequence >>
               ELSE IF file.kind = "other"
               THEN /\ resp' = redirect("items_import", 0, file, "Unsupported file type",
                                        "items_list")
                    /\ UNCHANGED << items, sqlite_sequence >>
               ELSE imported(upsert_rows(file.rows, items, sqlite_sequence["items"]))
            /\ UNCHANGED << sales_orders, sales_order_items, purchase_orders,
                            purchase_order_items, sales_invoices, sales_invoice_items, session,
                            customers, suppliers, stock_moves, hist, today, call, ret, conn,
                            wlock >>)

\* request.form.get(field, type=int): ok = FALSE stands for None, returned
\* when the field is absent or int() rejects it
get_int(value) ==
    LET digits(ds) ==
            IF ds # << >> /\ \A i \in 1..Len(ds) : IsDigit(ds[i])
            THEN [ok |-> TRUE, v |-> DigitsVal(ds)] ELSE [ok |-> FALSE, v |-> 0]
        negated(n) == [ok |-> n.ok, v |-> 0 - n.v]
        signed(t) ==
            IF t # << >> /\ t[1] = "-" THEN negated(digits(Tail(t)))
            ELSE IF t # << >> /\ t[1] = "+" THEN digits(Tail(t))
            ELSE digits(t)
    IN  IF value = None THEN [ok |-> FALSE, v |-> 0] ELSE signed(strip(value))

\* request.form.get('qty', type=float), in tenths
get_float(value) ==
    IF value = None THEN [ok |-> FALSE, v |-> 0]
    ELSE [ok |-> float(value).ok, v |-> IF float(value).ok THEN float(value).v ELSE 0]

\* not all([item_id, move_type, qty]): None, 0, 0.0 and '' are false
missing(item_id, move_type, qty) ==
    \/ ~item_id.ok \/ item_id.v = 0
    \/ move_type = None \/ move_type = << >>
    \/ ~qty.ok \/ qty.v = 0

\* POST /stock-moves/new.  The table has CHECK (move_type IN ('IN','OUT'))
\* and no constraint on qty but NOT NULL; item_id is an integer or None.
new_stock_move(form) ==
    LET validated(item_id, qty) ==
            IF missing(item_id, form.move_type, qty)
            THEN /\ resp' = redirect("new_stock_move", 0, form, "Missing required fields",
                                     "new_stock_move")
                 /\ UNCHANGED << stock_moves, sqlite_sequence >>
            ELSE IF form.move_type \notin {<< "I", "N" >>, << "O", "U", "T" >>}
            THEN /\ resp' = Answer("new_stock_move", 0, form, 500, "", "", "IntegrityError")
                 /\ UNCHANGED << stock_moves, sqlite_sequence >>
            ELSE /\ NextId("stock_moves") \in EntityIds
                 /\ stock_moves' = stock_moves \cup
                        {[id |-> NextId("stock_moves"), item_id |-> item_id.v,
                          move_type |-> form.move_type, qty |-> qty.v,
                          reference |-> form.reference]}
                 /\ sqlite_sequence' = [sqlite_sequence EXCEPT !["stock_moves"] = @ + 1]
                 /\ resp' = redirect("new_stock_move", 0, form, "Stock move recorded",
                                     "stock_moves_list")
    IN  login_required("new_stock_move", 0, form,
            /\ validated(get_int(form.item_id), get_float(form.qty))
            /\ UNCHANGED << sales_orders, sales_order_items, purchase_orders,
                            purchase_order_items, sales_invoices, sales_invoice_items, session,
                            customers, suppliers, items, hist, today, call, ret, conn, wlock >>)

ItemForms == [name : {None, << >>, << "A" >>}, sku : {<< >>, << "S" >>}]

MoveForms ==
    [item_id : {None, << "1" >>}, move_type : {<< >>, << "I", "N" >>, << "X" >>},
     qty : {<< "0" >>, << "2" >>, << "-", "5" >>, << "x" >>},
     reference : {<< "R" >>}]

(***************************************************************************)
(* SpecNew: the create forms of customers, items and stock moves.          *)
(***************************************************************************)
NextNew ==
    \/ \E form \in [name : {None, << " " >>, << "A" >>}] : customer_new(form)
    \/ \E form \in ItemForms : item_new(form)
    \/ \E form \in MoveForms : new_stock_move(form)

SpecNew == Init /\ [][NextNew]_vars

(***************************************************************************)
(* Print and pdf views of the documents and the supplier ledger.           *)
(***************************************************************************)
\* GET /sales-orders/<id>/print and /pdf: op names the view
salesorder_view(op, id) ==
    login_required(op, id, NoForm,
        /\ IF ~\E so \in sales_orders : so.id = id
           THEN resp' = redirect(op, id, NoForm, "Sales Order not found.", "salesorder_list")
           ELSE resp' = Answer(op, id, NoForm, 200, "", "", "")
        /\ UNCHANGED << dbvars, masters, hist, today, call, ret, conn, wlock >>)

\* GET /purchase-orders/<id>/print and /pdf
po_view(op, id) ==
    login_required(op, id, NoForm,
        /\ IF ~\E po \in purchase_orders : po.id = id
           THEN resp' = redirect(op, id, NoForm, "Purchase Order not found.", "po_list")
           ELSE resp' = Answer(op, id, NoForm, 200, "", "", "")
        /\ UNCHANGED << dbvars, masters, hist, today, call, ret, conn, wlock >>)

\* GET /sales-invoices/<id>/edit: the form is rendered whatever the SELECT found
salesinvoice_edit_page(id) ==
    login_required("salesinvoice_edit", id, NoForm,
        /\ resp' = Answer("salesinvoice_edit", id, NoForm, 200, "", "", "")
        /\ UNCHANGED << dbvars, masters, hist, today, call, ret, conn, wlock >>)

\* GET /print/supplier-ledger/<supplier_id>: return "Supplier not found", 404
print_supplier_ledger(supplier_id) ==
    login_required("print_supplier_ledger", supplier_id, NoForm,
        /\ IF ~\E s \in suppliers : s.id = supplier_id
           THEN resp' = Answer("print_supplier_ledger", supplier_id, NoForm, 404, "", "", "")
           ELSE resp' = Answer("print_supplier_ledger", supplier_id, NoForm, 200, "", "", "")
        /\ UNCHANGED << dbvars, masters, hist, today, call, ret, conn, wlock >>)

(***************************************************************************)
(* SpecLookup: edit, print and pdf requests for ids that exist and ids     *)
(* that do not, next to the creations that make ids exist.                 *)
(***************************************************************************)
LookupForms == [name : {<< "A" >>}]

NextLookup ==
    \/ \E form \in LookupForms : customer_new(form)
    \/ \E form \in LookupForms : supplier_new(form)
    \/ \E form \in [name : {<< "A" >>}, sku : {<< >>}] : item_new(form)
    \/ \E form \in HeaderForms({<< >>}) : salesorder_new(form)
    \/ \E form \in HeaderForms({<< >>}) : po_new(form)
    \/ \E form \in HeaderForms({<< >>}) : salesinvoice_new(form, 2 * today)
    \/ \E id \in EntityIds, form \in LookupForms : customer_edit(id, "GET", form)
    \/ \E id \in EntityIds, form \in LookupForms : supplier_edit(id, "GET", form)
    \/ \E id \in EntityIds : item_edit(id, "GET", [name |-> << "A" >>, sku |-> << >>])
    \/ \E id \in Ids, form \in HeaderForms({<< >>}) : salesorder_edit(id, form)
    \/ \E id \in Ids, form \in HeaderForms({<< >>}) : po_edit(id, form)
    \/ \E id \in Ids, form \in OneLineForms(SILineInputs) : salesinvoice_edit(id, form, 2 * today)
    \/ \E id \in Ids : salesinvoice_edit_page(id)
    \/ \E id \in Ids, op \in {"salesorder_print", "salesorder_pdf"} : salesorder_view(op, id)
    \/ \E id \in Ids, op \in {"po_print", "po_pdf"} : po_view(op, id)
    \/ \E id \in EntityIds : print_supplier_ledger(id)

SpecLookup == Init /\ [][NextLookup]_vars

(***************************************************************************)
(* SpecStock: the item master (create, edit, delete, import) and the stock *)
(* moves recorded against it.                                              *)
(***************************************************************************)
StockItemForms == [name : {<< "A" >>}, sku : {<< >>, << "S" >>}]

StockMoveForms ==
    [item_id : {<< "1" >>}, move_type : {<< "I", "N" >>, << "O", "U", "T" >>},
     qty : {<< "2" >>}, reference : {<< "R" >>}]

\* .csv files give '' for a blank cell, workbooks give None
ImportFiles ==
    [kind : {"csv"}, rows : [1..1 -> [Name : {<< "B" >>}, SKU : {<< >>, << "S" >>}]]]
    \cup [kind : {"xlsx"}, rows : [1..1 -> [Name : {<< "B" >>}, SKU : {None, << "S" >>}]]]
    \cup [kind : {"none", "other"}, rows : {<< >>}]

NextStock ==
    \/ \E form \in StockItemForms : item_new(form)
    \/ \E id \in EntityIds, form \in StockItemForms : item_edit(id, "POST", form)
    \/ \E id \in EntityIds : item_delete(id)
    \/ \E file \in ImportFiles : items_import(file)
    \/ \E form \in StockMoveForms : new_stock_move(form)

SpecStock == Init /\ [][NextStock]_vars

(***************************************************************************)
(* SpecTx: sales- and purchase-order create and edit requests run one      *)
(* statement at a time on the request's connection, one request after the  *)
(* other.  The statements write to the connection's open transaction       *)
(* (conn[c].tx, the tables as the connection sees them); db.commit() makes *)
(* them the persisted tables, close_db() without commit discards them.     *)
(* form.gst_rates is the number of gst_rate[] values the request carries.  *)
(***************************************************************************)
IdleTx == [pc |-> "idle", op |-> "none", form |-> NoForm, id |-> 0, no |-> None,
           busy |-> FALSE, i |-> 0, tx |-> {}]

InitTx ==
    /\ sales_orders = {}
    /\ sales_order_items = NoRows
    /\ purchase_orders = {}
    /\ purchase_order_items = NoRows
    /\ sales_invoices = {}
    /\ sales_invoice_items = NoRows
    /\ sqlite_sequence = [t \in Tables |-> 0]
    /\ session = SignedIn
    /\ customers = {}
    /\ suppliers = {}
    /\ items = {}
    /\ stock_moves = {}
    /\ today = 1
    /\ resp = Resp("none", 0, NoForm, "", None)
    /\ hist = [t \in {"sales_orders", "purchase_orders"} |-> [pure |-> TRUE, nos |-> << >>]]
    /\ call = NoCall
    /\ ret = NoRet
    /\ conn = [c \in Conns |-> IdleTx]
    /\ wlock = 0

\* The tables as a connection without open transaction reads them.
Persistent ==
    [sales_orders |-> sales_orders, sales_order_items |-> sales_order_items,
     purchase_orders |-> purchase_orders, purchase_order_items |-> purchase_order_items]

Creates == {"salesorder_new", "po_new"}
Sales == {"salesorder_new", "salesorder_edit"}

\* A POST arrives; an edit first selects its header and answers a missing
\* one with flash and redirect.
tx_request(c, op, id, form) ==
    /\ conn[c].pc \in {"idle", "done", "failed"}
    /\ op \in Creates => TotalDocs < MaxDocs /\ id = 0
    /\ IF \/ op = "salesorder_edit" /\ ~\E r \in sales_orders : r.id = id
          \/ op = "po_edit" /\ ~\E r \in purchase_orders : r.id = id
       THEN /\ conn' = [conn EXCEPT ![c] = [IdleTx EXCEPT !.pc = "done", !.op = op, !.id = id]]
            /\ resp' = Resp(op, id, NoForm, "not_found", None)
       ELSE /\ conn' = [conn EXCEPT ![c] = [IdleTx EXCEPT !.pc = "start", !.op = op, !.id = id,
                                                         !.form = form]]
            /\ UNCHANGED resp
    /\ UNCHANGED << dbvars, today, hist, call, masters, ret, wlock >>

\* The first write of the request: INSERT of the placeholder header
\* (creation) or DELETE of the header's lines (edit).
tx_first_write(c) ==
    /\ conn[c].pc = "start"
    /\ LET op == conn[c].op
           opened(pc, id, tx) ==
               /\ conn' = [conn EXCEPT ![c] = [@ EXCEPT !.pc = pc, !.id = id, !.i = 1, !.tx = tx]]
               /\ wlock' = c
               /\ UNCHANGED << dbvars, today, resp, hist, call, masters, ret >>
           so_placeholder(id) ==
               [Persistent EXCEPT !.sales_orders = @ \cup
                   {[id |-> id, so_no |-> << >>, total |-> 0, grand_total |-> 0]}]
           po_placeholder(id) ==
               [Persistent EXCEPT !.purchase_orders = @ \cup
                   {[id |-> id, po_no |-> << >>, total |-> 0, tax_total |-> 0,
                     grand_total |-> 0]}]
       IN  CASE op = "salesorder_new" ->
                  IF UniqueViolation(sales_orders, "so_no", 0, << >>)
                  THEN Abort(c, "IntegrityError")
                  ELSE opened("inserted", sqlite_sequence["sales_orders"] + 1,
                              so_placeholder(sqlite_sequence["sales_orders"] + 1))
             [] op = "po_new" ->
                  opened("inserted", sqlite_sequence["purchase_orders"] + 1,
                         po_placeholder(sqlite_sequence["purchase_orders"] + 1))
             [] op = "salesorder_edit" ->
                  opened("lines", conn[c].id,
                         [Persistent EXCEPT !.sales_order_items[conn[c].id] = << >>])
             [] op = "po_edit" ->
                  opened("lines", conn[c].id,
                         [Persistent EXCEPT !.purchase_order_items[conn[c].id] = << >>])

\* The count query and the UPDATE that sets the number of a new order.
tx_number(c) ==
    /\ conn[c].pc = "inserted"
    /\ LET op == conn[c].op
           tx == conn[c].tx
           id == conn[c].id
           numbered(no, written) ==
               /\ conn' = [conn EXCEPT ![c] = [@ EXCEPT !.pc = "lines", !.no = no, !.tx = written]]
               /\ UNCHANGED << dbvars, today, resp, hist, call, masters, ret, wlock >>
           so_numbered(no) ==
               IF UniqueViolation(tx.sales_orders, "so_no", id, no)
               THEN /\ Abort(c, "IntegrityError")
               ELSE numbered(no, [tx EXCEPT !.sales_orders =
                       {IF r.id = id THEN [r EXCEPT !.so_no = no] ELSE r : r \in @}])
           po_numbered(no) ==
               numbered(no, [tx EXCEPT !.purchase_orders =
                       {IF r.id = id THEN [r EXCEPT !.po_no = no] ELSE r : r \in @}])
       IN  IF op = "salesorder_new"
           THEN so_numbered(DocNo(SO, today, so_count_today(tx.sales_orders) + 1))
           ELSE po_numbered(IF conn[c].form.no \in {<< >>, None}
                            THEN DocNo(PO, today, po_count_today(tx.purchase_orders) + 1)
                            ELSE conn[c].form.no)

\* One iteration of the line loop.
tx_line(c) ==
    /\ conn[c].pc = "lines"
    /\ conn[c].i <= Len(conn[c].form.lines)
    /\ LET op == conn[c].op
           id == conn[c].id
           i == conn[c].i
           line == conn[c].form.lines[i]
           looped(written) ==
               /\ conn' = [conn EXCEPT ![c] = [@ EXCEPT !.i = i + 1, !.tx = written]]
               /\ UNCHANGED << dbvars, today, resp, hist, call, masters, ret, wlock >>
       IN  IF line.item_id = << >> THEN looped(conn[c].tx)
           ELSE IF op \in Sales
           THEN IF calculate_line_params # 3
                THEN Abort(c, "TypeError")
                ELSE looped([conn[c].tx EXCEPT !.sales_order_items[id] = @ \o so_rows(<< line >>)])
           ELSE IF i > conn[c].form.gst_rates
                THEN Abort(c, "IndexError")
                ELSE looped([conn[c].tx EXCEPT
                                !.purchase_order_items[id] = @ \o po_rows(<< line >>)])

\* The UPDATE of the header (totals; an edit writes the posted number too)
\* and db.commit().
tx_commit(c) ==
    /\ conn[c].pc = "lines"
    /\ conn[c].i > Len(conn[c].form.lines)
    /\ LET op == conn[c].op
           id == conn[c].id
           tx == conn[c].tx
           no == IF op \in Creates THEN conn[c].no ELSE conn[c].form.no
           so_header(r) ==
               [r EXCEPT !.so_no = no, !.total = SumOf(tx.sales_order_items[id], "line_total"),
                         !.grand_total = SumOf(tx.sales_order_items[id], "line_total")]
           po_header(r) ==
               [r EXCEPT !.po_no = no, !.total = SumOf(tx.purchase_order_items[id], "net"),
                         !.tax_total = SumOf(tx.purchase_order_items[id], "tax"),
                         !.grand_total = SumOf(tx.purchase_order_items[id], "line_total")]
           committed ==
               /\ sales_orders' =
                     {IF r.id = id /\ op \in Sales THEN so_header(r) ELSE r : r \in tx.sales_orders}
               /\ sales_order_items' = tx.sales_order_items
               /\ purchase_orders' =
                     {IF r.id = id /\ op \notin Sales THEN po_header(r) ELSE r
                      : r \in tx.purchase_orders}
               /\ purchase_order_items' = tx.purchase_order_items
               /\ sqlite_sequence' =
                     IF op \in Creates THEN [sqlite_sequence EXCEPT ![TableOf(op)] = id]
                     ELSE sqlite_sequence
               /\ conn' = [conn EXCEPT ![c] = [@ EXCEPT !.pc = "done", !.tx = {}]]
               /\ wlock' = 0
               /\ resp' = Resp(op, id, conn[c].form, "", no)
               /\ UNCHANGED << sales_invoices, sales_invoice_items, today, hist, call, masters,
                               ret >>
       IN  IF op = "salesorder_edit" /\ UniqueViolation(tx.sales_orders, "so_no", id, no)
           THEN Abort(c, "IntegrityError")
           ELSE committed

TxLine == [item_id |-> << "1" >>, qty |-> << "2" >>, rate |-> << "1", "0" >>,
           discount |-> << "5" >>, gst_rate |-> << "1", "0" >>]

TxForms(op) ==
    IF op \in Sales
    THEN [no : IF op \in Creates THEN {<< >>} ELSE {<< >>, DocNo(SO, 1, 2)},
          lines : {<< >>, << TxLine >>}, gst_rates : {0}]
    ELSE [no : {<< >>}, lines : {<< TxLine >>, << TxLine, TxLine >>}, gst_rates : {1, 2}]

NextTx ==
    \/ \E op \in Creates : \E form \in TxForms(op) : tx_request(1, op, 0, form)
    \/ \E op \in {"salesorder_edit", "po_edit"}, id \in Ids :
          \E form \in TxForms(op) : tx_request(1, op, id, form)
    \/ tx_first_write(1)
    \/ tx_number(1)
    \/ tx_line(1)
    \/ tx_commit(1)

SpecTx == InitTx /\ [][NextTx]_vars

(***************************************************************************)
(* Properties                                                              *)
(***************************************************************************)
Prefix(t) == IF t = "sales_orders" THEN SO ELSE PO
Headers(t) == IF t = "sales_orders" THEN sales_orders ELSE purchase_orders
NoOf(t, r) == IF t = "sales_orders" THEN r.so_no ELSE r.po_no
OrderTables == {"sales_orders", "purchase_orders"}
CreateOp(t) == IF t = "sales_orders" THEN "salesorder_new" ELSE "po_new"

\* 320.00, 270.00 and 50.00 in 1/100000 units
Amount(n) == n * 100000

\* The last request was the first sales-order creation of the day: no sales
\* order held a number of today before it.
FirstSalesOrderToday ==
    /\ resp.op = "salesorder_new"
    /\ resp.day = today
    /\ hist["sales_orders"].pure
    /\ hist["sales_orders"].nos = (IF resp.exc = "" THEN << resp.no >> ELSE << >>)

\* C1: a sales-order creation with the two scenario lines, first of the day,
\* persists a header numbered SO<today>-00001 with grand_total 320 and two
\* line rows with line_total 270 and 50.
C1_EndToEndSalesOrder ==
    (FirstSalesOrderToday /\ resp.form.lines = ScenarioLines) =>
        \E h \in sales_orders :
            /\ h.so_no = SO \o strftime(today) \o << "-", "0", "0", "0", "0", "1" >>
            /\ h.grand_total = Amount(320)
            /\ Len(sales_order_items[h.id]) = 2
            /\ sales_order_items[h.id][1].line_total = Amount(270)
            /\ sales_order_items[h.id][2].line_total = Amount(50)

\* A header carries a number when its number column is neither NULL nor blank.
CarriesNumber(no) == no # None /\ no # << >>

\* C2: no two persisted headers of one type (sales orders, purchase orders)
\* carry the same number.
C2_NumbersUnique ==
    \A t \in OrderTables : \A r1, r2 \in Headers(t) :
        (r1.id # r2.id /\ CarriesNumber(NoOf(t, r1))) => NoOf(t, r1) # NoOf(t, r2)

\* The headers that existed when the last creation generated its number:
\* all rows but the one that creation inserted.
Existing(t) ==
    IF resp.exc = "" THEN {r \in Headers(t) : r.id # sqlite_sequence[t]} ELSE Headers(t)

GeneratedBy(t) ==
    /\ resp.op = CreateOp(t)
    /\ resp.day = today
    /\ resp.no # None
    /\ resp.form.no \in {<< >>, None}

StartsWith(no, p) == no # None /\ Len(no) >= Len(p) /\ SubSeq(no, 1, Len(p)) = p

Fold(txt) == [i \in 1..Len(txt) |-> upper(txt[i])]

WellFormedNo(t, no, seq) ==
    /\ Len(no) = 16
    /\ SubSeq(no, 1, 2) = Prefix(t)
    /\ SubSeq(no, 3, 10) = strftime(today)
    /\ no[11] = "-"
    /\ \A i \in 12..16 : IsDigit(no[i])
    /\ DigitsVal(SubSeq(no, 12, 16)) = seq

\* C3 as stated: the generated number is PREFIX + YYYYMMDD + '-' + 5 digits,
\* the digits being 1 + the number of existing documents of the type whose
\* number starts with PREFIX+YYYYMMDD.
C3_SequenceCountsPrefixDate ==
    \A t \in OrderTables :
        GeneratedBy(t) =>
            WellFormedNo(t, resp.no,
                1 + Cardinality({r \in Existing(t) :
                                    StartsWith(NoOf(t, r), Prefix(t) \o strftime(today))}))

\* C3 amended: the digits are 1 + the number of existing documents of the
\* type whose number begins, letter case ignored, with PREFIX+YYYYMMDD+'-';
\* the row being created is not counted.
C3_SequenceCountsLikePattern ==
    \A t \in OrderTables :
        GeneratedBy(t) =>
            WellFormedNo(t, resp.no,
                1 + Cardinality({r \in Existing(t) :
                                    /\ NoOf(t, r) # None
                                    /\ StartsWith(Fold(NoOf(t, r)),
                                                  Prefix(t) \o strftime(today) \o << "-" >>)}))

\* a number was generated while another document holds a typed-in number
\* that starts with PREFIX+YYYYMMDD without the '-', or in lower case
C3_Witness ==
    \E t \in OrderTables :
        /\ GeneratedBy(t) /\ resp.exc = ""
        /\ \E r \in Existing(t) :
              /\ NoOf(t, r) # None
              /\ StartsWith(Fold(NoOf(t, r)), Prefix(t) \o strftime(today))
              /\ ~StartsWith(NoOf(t, r), Prefix(t) \o strftime(today) \o << "-" >>)

\* C4: while only creations with generated numbers have been committed for a
\* type on the current date, the k-th of them received sequence number k.
C4_KthCreationGetsK ==
    \A t \in OrderTables :
        hist[t].pure =>
            \A k \in 1..Len(hist[t].nos) :
                /\ WellFormedNo(t, hist[t].nos[k], k)
                /\ \E r \in Headers(t) : NoOf(t, r) = hist[t].nos[k]

\* two documents of one type created one after the other on the second day
C4_Witness ==
    \E t \in OrderTables : hist[t].pure /\ Len(hist[t].nos) = 2 /\ today = 2

C7_LineTotalNonNegative ==
    \A id \in Ids :
        /\ \A i \in 1..Len(sales_order_items[id]) : sales_order_items[id][i].line_total >= 0
        /\ \A i \in 1..Len(purchase_order_items[id]) : purchase_order_items[id][i].line_total >= 0
        /\ \A i \in 1..Len(sales_invoice_items[id]) : sales_invoice_items[id][i].line_total >= 0

SalesStyle == call.fn \in {"calculate_line_sales", "save_invoice_line"} /\ ret.done /\ ~ret.raised

\* C8: the sales-style computation returns qty*rate*(1 - discount/100) for
\* qty >= 0, rate >= 0 and discount in [0, 100], and 0 for discount > 100.
C8_SalesLineTotal ==
    (SalesStyle /\ ret.value.qty >= 0 /\ ret.value.rate >= 0 /\ ret.value.disc >= 0) =>
        IF ret.value.disc <= 1000
        THEN ret.value.line_total = ret.value.qty * ret.value.rate * (1000 - ret.value.disc)
        ELSE ret.value.line_total = 0

\* a positive quantity and rate under a discount above 100 percent
C8_Witness ==
    /\ SalesStyle /\ call.fn = "calculate_line_sales"
    /\ ret.value.qty > 0 /\ ret.value.rate > 0 /\ ret.value.disc > 1000
    /\ ret.value.line_total = 0

\* C9: for non-negative inputs the purchase-style calculator returns
\* net = max(qty*rate - discount, 0), tax = net*gst/100, line_total = net + tax.
C9_PurchaseLine ==
    (/\ call.fn = "calculate_line" /\ ret.done
     /\ ret.value.qty >= 0 /\ ret.value.rate >= 0 /\ ret.value.disc >= 0 /\ ret.value.gst >= 0) =>
        LET v == ret.value
            due == v.qty * v.rate - v.disc * 10               \* hundredths
            net == IF due > 0 THEN due ELSE 0
        IN  /\ v.net = net * 1000
            /\ v.tax = net * v.gst
            /\ v.line_total = v.net + v.tax

\* a discounted, taxed line: 3 x 2.5 less 1.0, 12.5 percent tax
C9_Witness ==
    /\ call.fn = "calculate_line" /\ ret.done
    /\ ret.value.qty > 0 /\ ret.value.rate > 0 /\ ret.value.disc > 0 /\ ret.value.gst > 0
    /\ ret.value.net > 0 /\ ret.value.tax > 0

SaveOps == {"salesorder_new", "salesorder_edit", "po_new", "po_edit",
            "salesinvoice_new", "salesinvoice_edit"}

\* C10: no document save path raises on a line value: blank or unparseable
\* values count as 0.0 and a comma is read as the decimal separator.
C10_ParsingNeverRaises ==
    resp.op \in SaveOps => resp.exc \notin {"ValueError", "TypeError"}

\* C5 as stated needs the steps of two creations to interleave: while one
\* request is between its placeholder insert and its commit, the placeholder
\* insert of another request takes effect too (only then can both count
\* before either number is written and generate the same number).
C5_CreationsInterleave ==
    \A c1, c2 \in DOMAIN conn :
        (c1 # c2 /\ InTx(c1) /\ conn[c2].pc = "start") =>
            ENABLED (insert_placeholder(c2) /\ conn'[c2].pc = "inserted")

\* C5 amended: two concurrent creations cannot interleave their insert,
\* count and update steps: at most one request is between its placeholder
\* insert and its commit, a second one waits or fails with "database is
\* locked", and the numbers of the documents committed by concurrently
\* served creations are pairwise distinct.
C5_CreationsSerialized ==
    /\ \A c1, c2 \in DOMAIN conn : (InTx(c1) /\ InTx(c2)) => c1 = c2
    /\ \A t \in OrderTables : \A r1, r2 \in Headers(t) :
          r1.id # r2.id => NoOf(t, r1) # NoOf(t, r2)

\* two creations of one type, both committed, one of which met the other's
\* write lock at its placeholder insert
C5_Witness ==
    \E c1, c2 \in DOMAIN conn :
        /\ c1 # c2
        /\ conn[c1].pc = "done" /\ conn[c2].pc = "done"
        /\ conn[c1].op = conn[c2].op
        /\ conn[c2].busy
        /\ \E r1, r2 \in Committed(conn[c1].op) :
              r1.id = conn[c1].id /\ r2.id = conn[c2].id /\ r1.id # r2.id

(***************************************************************************)
(* The aggregate builders: skipped lines, replaced line sets, cascades     *)
(***************************************************************************)
\* The submitted lines that carry an item reference.
WithItem(lines) == SelectSeq(lines, LAMBDA l : l.item_id # << >>)

\* The item references of a sequence of submitted lines or persisted rows.
ItemRefs(rows) == [i \in 1..Len(rows) |-> rows[i].item_id]

OtherHeaders(rows, id) == {r \in rows : r.id # id}
OtherLines(rows, id) == [i \in Ids \ {id} |-> rows[i]]

DeleteOps == {"salesorder_delete", "po_delete", "salesinvoice_delete"}

Listed == call.fn \in Listings /\ ret.done

\* The least number of pages of the given size that hold total rows.
CeilPages(total, size) ==
    CHOOSE k \in 0..total : k * size >= total /\ (k = 0 \/ (k - 1) * size < total)

\* C14: every listing reports ceil(total_matching / page_size) pages, and one
\* page when nothing matches.
C14_TotalPages ==
    Listed => ret.value.pages = Max(1, CeilPages(ret.value.total, ret.value.per_page))

\* The positions offset+1 .. offset+page_size of the sorted result that exist.
PageSlice(total, size, page) ==
    {i \in 1..total : (page - 1) * size < i /\ i <= page * size}

\* C15: a listing returns the rows at the sorted positions offset ..
\* offset+page_size-1 (counted from 0) with offset = (page-1)*page_size, in
\* order; a page below 1 or beyond the last page holds no row.
C15_PageRows ==
    Listed =>
        /\ Len(ret.value.rows) = Cardinality(PageSlice(ret.value.total, ret.value.per_page,
                                                       ret.value.page))
        /\ \A i \in 1..Len(ret.value.rows) :
              ret.value.rows[i] = (ret.value.page - 1) * ret.value.per_page + i
        /\ (ret.value.page < 1 \/ ret.value.page > ret.value.pages) => ret.value.rows = << >>

\* An amount that is negative or cannot be parsed.
NegativeOrUnparseable(amount) ==
    \/ amount.type = "float" /\ amount.v < 0
    \/ amount.type = "str" /\ amount.text # << >> /\
          (~float(amount.text).ok \/ float(amount.text).v < 0)

\* C16: for a negative or unparseable amount inr_words returns the phrase
\* for zero and raises nothing.
C16_NegativeIsZero ==
    (call.fn = "inr_words" /\ ret.done /\ NegativeOrUnparseable(call.args[1])) =>
        ~ret.raised /\ ret.value = "zero rupees only"

\* The words of 1..999 as tokens: the hundreds digit, then the last two digits.
Below1000(k) ==
    (IF k >= 100 THEN << ones[(k \div 100) + 1], "hundred" >> ELSE << >>)
    \o (IF k % 100 = 0 THEN << >>
        ELSE IF k % 100 < 20 THEN << ones[(k % 100) + 1] >>
        ELSE << tens[((k % 100) \div 10) + 1] >>
             \o (IF k % 10 = 0 THEN << >> ELSE << ones[(k % 10) + 1] >>))

\* A group of value k < 1000 with its unit; nothing for a zero group.
GroupTokens(k, unit) == IF k = 0 THEN << >> ELSE Below1000(k) \o unit

\* The Indian-system decomposition of n, for n below 1000 crore.
Decomposition(n) ==
    GroupTokens(n \div 10000000, << "crore" >>)
    \o GroupTokens((n % 10000000) \div 100000, << "lakh" >>)
    \o GroupTokens((n % 100000) \div 1000, << "thousand" >>)
    \o GroupTokens(n % 1000, << >>)

\* The tokens separated by single spaces.
RECURSIVE Spaced(_)
Spaced(tokens) ==
    IF Len(tokens) = 0 THEN ""
    ELSE IF Len(tokens) = 1 THEN tokens[1]
    ELSE Spaced(SubSeq(tokens, 1, Len(tokens) - 1)) \o " " \o tokens[Len(tokens)]

\* C17: for a non-negative n, _inr_number_to_words returns (no exception)
\* the crore / lakh / thousand / three-digit decomposition of n, the groups
\* joined by single spaces and zero groups left out; 0 gives "zero" and
\* 1000000 gives "ten lakh".
C17_Decomposition ==
    (call.fn = "_inr_number_to_words" /\ ret.done /\ call.args[1] >= 0) =>
        /\ ~ret.raised
        /\ ret.value = (IF call.args[1] = 0 THEN "zero" ELSE Spaced(Decomposition(call.args[1])))
        /\ call.args[1] = 1000000 => ret.value = "ten lakh"

\* A number with every group non-zero has been put into words.
C17_Witness ==
    /\ call.fn = "_inr_number_to_words"
    /\ call.args[1] = 1509920999
    /\ ret.done
    /\ ~ret.raised
    /\ ret.value = "one hundred fifty crore ninety nine lakh twenty thousand nine hundred ninety nine"

\* The amount in hundredths, for the amounts float() accepts (else 0).
Hundredths(amount) ==
    IF amount.type = "float" THEN amount.v
    ELSE IF amount.type = "str" /\ amount.text # << >> /\ float(amount.text).ok
         THEN float(amount.text).v * 10
    ELSE 0

\* words(rupees) " rupees" [" and " words(paise) " paise"] " only"
Composed(rupees, paise) ==
    _inr_number_to_words(rupees, 1).text \o " rupees"
    \o (IF paise # 0 THEN " and " \o _inr_number_to_words(paise, 1).text \o " paise" ELSE "")
    \o " only"

\* C18: the result of inr_words is words(rupees) + " rupees", then " and " +
\* words(paise) + " paise" exactly when the paise are not zero, then " only";
\* inr_words(0) is "zero rupees only", inr_words(100) "one hundred rupees only".
C18_Composition ==
    (call.fn = "inr_words" /\ ret.done /\ ~ret.raised) =>
        /\ ret.value = Composed(Hundredths(call.args[1]) \div 100, Hundredths(call.args[1]) % 100)
        /\ call.args[1] = NumAmount(0) => ret.value = "zero rupees only"
        /\ call.args[1] = NumAmount(10000) => ret.value = "one hundred rupees only"

\* An amount with paise has been put into words.
C18_Witness ==
    /\ call.fn = "inr_words"
    /\ call.args[1] = NumAmount(10050)
    /\ ret.done
    /\ ~ret.raised
    /\ ret.value = "one hundred rupees and fifty paise only"

\* The label entries a form asks for, written from the form: for each
\* selected id that has a row, in order, as many entries as its copy count.
RECURSIVE Labels(_, _)
Labels(form, n) ==
    IF n = 0 THEN << >>
    ELSE Labels(form, n - 1) \o
         (IF form.item_ids[n] \in BarcodeItems /\ form.qty[form.item_ids[n]].type # "bad"
          THEN label_entries(n, form.item_ids[n],
                             IF form.qty[form.item_ids[n]].type = "none" THEN 1
                             ELSE form.qty[form.item_ids[n]].v)
          ELSE << >>)

RECURSIVE Concat(_)
Concat(pages) == IF pages = << >> THEN << >> ELSE Head(pages) \o Concat(Tail(pages))

\* C19: an archive holds exactly ceil(E / entries_per_page) pages for the E
\* label entries, entries_per_page being columns * rows; no page holds more
\* than entries_per_page cells, and the pages one after the other are the
\* entries in input order, each once.
C19_BarcodePages ==
    (call.fn = "items_barcodes" /\ ret.done /\ ~ret.raised /\ ret.value.kind = "send_file") =>
        /\ per_page = COLS * ROWS
        /\ ROWS * (CELL_H + GAP_Y) - GAP_Y <= PAGE_H - 2 * MARGIN_Y
        /\ Len(ret.value.pages) * per_page >= Len(Labels(call.args[1], Len(call.args[1].item_ids)))
        /\ (Len(ret.value.pages) - 1) * per_page < Len(Labels(call.args[1], Len(call.args[1].item_ids)))
        /\ \A p \in 1..Len(ret.value.pages) : Len(ret.value.pages[p]) \in 1..per_page
        /\ Concat(ret.value.pages) = Labels(call.args[1], Len(call.args[1].item_ids))

\* An archive of several pages, the last one not full.
C19_Witness ==
    /\ call.fn = "items_barcodes"
    /\ ret.done
    /\ ~ret.raised
    /\ ret.value.kind = "send_file"
    /\ Len(ret.value.pages) = 4
    /\ Len(ret.value.pages[4]) = 2

\* C20: no archive without pages is returned; a request that selects no
\* item, or whose items and copy counts give no label entry, is answered
\* by a flashed message and a redirect.
C20_NoEmptyArchive ==
    (call.fn = "items_barcodes" /\ ret.done /\ ~ret.raised) =>
        /\ ret.value.kind = "send_file" => Len(ret.value.pages) >= 1
        /\ (Labels(call.args[1], Len(call.args[1].item_ids)) = << >>) =>
               ret.value.kind = "redirect" /\ ret.value.flash # ""

\* Items were selected, but their copy counts give no entry.
C20_Witness ==
    /\ call.fn = "items_barcodes"
    /\ call.args[1].item_ids = << 1, 9 >>
    /\ call.args[1].qty[1] = QtyInt(0)
    /\ ret.done
    /\ ret.value.kind = "redirect"
    /\ ret.value.flash = "No barcodes generated"

\* C21: the font-shrink loop is left for every name length; each iteration
\* makes the font size strictly smaller, and the size of the loaded
\* TrueType font never goes below 12.
C21_ShrinkTerminates ==
    /\ <>(ret.done)
    /\ [](call.args[3] = "truetype" => ret.value >= 12)
    /\ [][(~ret.done /\ ~ret'.done) => ret'.value < ret.value]_vars

\* A name too wide even at the floor: the loop was left at size 12.
C21_Witness ==
    /\ call.fn = "font_shrink"
    /\ call.args[3] = "truetype"
    /\ ret.done
    /\ ret.value = 12
    /\ w_now > max_width

\* The tables of the database.
Persisted ==
    << sales_orders, sales_order_items, purchase_orders, purchase_order_items, sales_invoices,
       sales_invoice_items, sqlite_sequence, customers, suppliers, items, stock_moves >>

\* C22: a request to an entity operation (list, new, edit, delete, export,
\* import) from a session without a user is redirected to login and leaves
\* the persisted state unchanged.
C22_LoginRequired ==
    [][("user_id" \notin session /\ resp' # resp /\ resp'.op \notin {"login", "logout"}) =>
          /\ resp'.status = 302
          /\ resp'.location = "login"
          /\ UNCHANGED Persisted]_vars

\* The create request answered last left a required field out.
RequiredMissing(r) ==
    \/ r.op = "customer_new" /\ get_stripped(r.form.name) = << >>
    \/ r.op = "item_new" /\ get_stripped(r.form.name) = << >>
    \/ r.op = "new_stock_move" /\
          missing(get_int(r.form.item_id), r.form.move_type, get_float(r.form.qty))

\* C23: a create request for a customer, an item or a stock move with a
\* required field missing is answered by a flash message and a redirect to
\* the form it came from, and writes no row.
C23_ValidationFailure ==
    [][(resp' # resp /\ RequiredMissing(resp')) =>
          /\ resp'.flash # ""
          /\ resp'.status = 302
          /\ resp'.location = resp'.op
          /\ UNCHANGED Persisted]_vars

\* The rows an edit, print or pdf request looks its id up in, and the list
\* view of the entity.
LookupTable(op) ==
    CASE op \in {"customer_edit"} -> customers
      [] op \in {"supplier_edit", "print_supplier_ledger"} -> suppliers
      [] op \in {"item_edit"} -> items
      [] op \in {"salesorder_edit", "salesorder_print", "salesorder_pdf"} -> sales_orders
      [] op \in {"po_edit", "po_print", "po_pdf"} -> purchase_orders
      [] op \in {"salesinvoice_edit"} -> sales_invoices

ListView(op) ==
    CASE op \in {"customer_edit"} -> "customer_list"
      [] op \in {"supplier_edit", "print_supplier_ledger"} -> "supplier_list"
      [] op \in {"item_edit"} -> "items_list"
      [] op \in {"salesorder_edit", "salesorder_print", "salesorder_pdf"} -> "salesorder_list"
      [] op \in {"po_edit", "po_print", "po_pdf"} -> "po_list"
      [] op \in {"salesinvoice_edit"} -> "salesinvoice_list"

Lookups == {"customer_edit", "supplier_edit", "print_supplier_ledger", "item_edit",
            "salesorder_edit", "salesorder_print", "salesorder_pdf", "po_edit", "po_print",
            "po_pdf", "salesinvoice_edit"}

\* The answer is a flashed message and a redirect to the list view.  The
\* order edits record it as exc = "not_found".
FlashAndList(r) ==
    IF r.op \in {"salesorder_edit", "po_edit", "salesinvoice_edit"} /\ "status" \notin DOMAIN r
    THEN r.exc = "not_found"
    ELSE r.status = 302 /\ r.flash # "" /\ r.location = ListView(r.op)

\* C24: an edit, print or pdf request for an id that does not exist is
\* answered by a flash message and a redirect to the list view of the
\* entity, and writes nothing.
C24_NotFound ==
    [][(/\ resp' # resp
        /\ resp'.op \in Lookups
        /\ ~\E row \in LookupTable(resp'.op) : row.id = resp'.id) =>
          /\ FlashAndList(resp')
          /\ UNCHANGED Persisted]_vars

\* C25: every persisted stock move has a quantity strictly greater than
\* zero and a direction that is IN or OUT.
C25_StockMoveDomain ==
    \A m \in stock_moves :
        /\ m.qty > 0
        /\ m.move_type \in {<< "I", "N" >>, << "O", "U", "T" >>}

\* C26: stock moves are append-only: every step keeps each recorded move
\* with its item, direction, quantity and reference; the set only grows.
C26_AppendOnly ==
    [][\A m \in stock_moves : m \in stock_moves']_vars

\* A recorded move outlives the deletion of the item it was recorded against.
C26_Witness ==
    /\ resp.op = "item_delete"
    /\ resp.id <= sqlite_sequence["items"]
    /\ \E m \in stock_moves : m.item_id = resp.id
    /\ ~\E i \in items : i.id = resp.id

\* An import step: the answer in the next state is that of items_import on a
\* readable file.
Imported ==
    /\ resp'.op = "items_import"
    /\ resp'.form.kind \in {"csv", "xlsx"}

\* C27: item import upserts on SKU: no two items hold the same SKU, and
\* importing a file again right after importing it leaves the item set as
\* the first import left it.
C27_UpsertOnSku ==
    /\ [](\A i, j \in items : (i.sku # None /\ i.sku = j.sku) => i = j)
    /\ [][Imported =>
            upsert_rows(resp'.form.rows, items', sqlite_sequence'["items"]).items = items']_vars

\* C28: on one date (the first, so every earlier request ran on it), a
\* sales-order creation that follows any sequence of creations, edits and
\* deletions succeeds, and the number it is assigned is held by no sales
\* order that existed before it.
C28_CreationSucceeds ==
    [][(/\ today = 1
        /\ today' = today
        /\ resp'.op = "salesorder_new") =>
          /\ resp'.exc = ""
          /\ ~\E r \in sales_orders : r.so_no = resp'.no
          /\ \E r \in sales_orders' : r.so_no = resp'.no /\ r.id = sqlite_sequence'["sales_orders"]]_vars

C30_AllOrNothing ==
    [][/\ dbvars' # dbvars => conn'[1].pc = "done" /\ resp'.exc = ""
       /\ conn'[1].pc = "failed" => dbvars' = dbvars]_vars

\* A purchase-order edit that failed part-way through its line loop, after
\* deleting the order's persisted lines and inserting the first new line.
C30_Witness ==
    /\ conn[1].pc = "failed"
    /\ conn[1].op = "po_edit"
    /\ conn[1].i = 2
    /\ resp.exc = "IndexError"
    /\ purchase_order_items[conn[1].id] # << >>
====
